---- MODULE Spec2Model ----
(***************************************************************************)
(* A model of the nordic-chess position core: the bordered 120-cell        *)
(* mailbox board, the FEN validator and codec, ChessPosition.move,         *)
(* getPossibleSquares, isSquareAttacked and isCheckmate.                   *)
(*                                                                         *)
(* JavaScript values are modelled as follows.  Strings are TLA+ strings    *)
(* (Len, SubSeq and \o act on them character by character).  Numbers are   *)
(* integers; `undefined' and NaN are the two negative sentinels UNDEF and  *)
(* NaN, which no table, square or clock of the program ever holds.  A      *)
(* function that can throw returns a record with a `threw' field.          *)
(***************************************************************************)
EXTENDS Integers, Sequences, FiniteSets, TLC

(***************************************************************************)
(* Bounds of the exploration.                                              *)
(***************************************************************************)
\* Number of successful move() calls explored from a constructed position.
MaxPly == 2
\* Number of direct move() calls (with a move that was not taken from
\* getPossibleSquares) after which the exploration stops.
MaxDirect == 1
\* Number of ChessEngine objects getEngine creates, of getEngine() calls and
\* of closeEngine() calls.
MaxEngines == 2
MaxGetCalls == 2
MaxCloseCalls == 2
\* Number of initialize() calls on one engine, of calls that return a
\* promise, of info lines the worker posts for one search, and of stop
\* commands waiting in the worker's inbox.
MaxStarts == 1
MaxCalls == 2
MaxInfos == 2
MaxStops == 1

(***************************************************************************)
(* constants.ts                                                            *)
(***************************************************************************)
UNDEF == -1
NaN == -2

VARIANT_UNKNOWN == 0
VARIANT_DEFAULT == 1

FEN_START == "rnbqkbnr/pppppppp/8/8/8/8/PPPPPPPP/RNBQKBNR w KQkq - 0 1"

PIECES_CHAR == ".PNBRQKpnbrqk"
FILES_CHAR == "abcdefgh"
RANKS_CHAR == "12345678"

BOARD_SIZE_SAFE == 120

EMPTY == 0
whitePawn == 1
whiteKnight == 2
whiteBishop == 3
whiteRook == 4
whiteQueen == 5
whiteKing == 6
blackPawn == 7
blackKnight == 8
blackBishop == 9
blackRook == 10
blackQueen == 11
blackKing == 12

FILE_A == 0
FILE_B == 1
FILE_C == 2
FILE_D == 3
FILE_E == 4
FILE_F == 5
FILE_G == 6
FILE_H == 7
FILE_NONE == 8

RANK_1 == 0
RANK_2 == 1
RANK_3 == 2
RANK_4 == 3
RANK_5 == 4
RANK_6 == 5
RANK_7 == 6
RANK_8 == 7
RANK_NONE == 8

WHITE == 0
BLACK == 1
BOTH == 2

WKCA == 1
WQCA == 2
BKCA == 4
BQCA == 8

MOVE_NORMAL == 0
MOVE_EnPassant == 1
MOVE_KingSideCastling == 2
MOVE_QueenSideCastling == 3

A1 == 21
H1 == 28
A8 == 91
H8 == 98
OFFBOARD == 100

Pieces == 0..12

\* A table lookup table[piece]: undefined when the index is no piece value.
PieceColor(p) ==
    IF p = EMPTY THEN BOTH
    ELSE IF p \in whitePawn..whiteKing THEN WHITE
    ELSE IF p \in blackPawn..blackKing THEN BLACK
    ELSE UNDEF

\* The boolean tables are only ever used for their truthiness, so an
\* undefined entry is FALSE.
PiecePawn(p) == p \in {whitePawn, blackPawn}
PieceKnight(p) == p \in {whiteKnight, blackKnight}
PieceKing(p) == p \in {whiteKing, blackKing}
PieceRookQueen(p) == p \in {whiteRook, whiteQueen, blackRook, blackQueen}
PieceBishopQueen(p) == p \in {whiteBishop, whiteQueen, blackBishop, blackQueen}

\* The last offset one file short.
KnightDirectionsShort == <<-8, -19, -21, -12, 8, 19, 21, 11>>
KnightDirections == <<-8, -19, -21, -12, 8, 19, 21, 12>>
RookDirections == <<-1, -10, 1, 10>>
BishopDirections == <<-9, -11, 11, 9>>
KingDirections == <<-1, -10, 1, 10, -9, -11, 11, 9>>

\* Sq120ToSq64[sq]: 65 on the border, undefined outside the array.
Sq120ToSq64(sq) ==
    IF sq \notin 0..(BOARD_SIZE_SAFE - 1) THEN UNDEF
    ELSE IF sq < 21 \/ sq > 98 \/ sq % 10 = 0 \/ sq % 10 = 9 THEN 65
    ELSE ((sq \div 10) - 2) * 8 + ((sq % 10) - 1)

(***************************************************************************)
(* funcs.ts                                                                *)
(***************************************************************************)
Square2FileRankThrows(sq) == Sq120ToSq64(sq) = 65

\* The pair in the order [rank, file].
Square2FileRankSwapped(sq) ==
    LET s == Sq120ToSq64(sq)
    IN  IF s = UNDEF THEN <<NaN, NaN>> ELSE <<s \div 8, s % 8>>

\* [file, rank] of a real square (file and rank are NaN for a square that is
\* neither a number of the array nor a border cell).
Square2FileRank(sq) ==
    LET s == Sq120ToSq64(sq)
    IN  IF s = UNDEF THEN <<NaN, NaN>> ELSE <<s % 8, s \div 8>>

FileRank2SquareThrows(f, r) == f = FILE_NONE \/ r = RANK_NONE

FileRank2Square(f, r) ==
    IF f \in {UNDEF, NaN} \/ r \in {UNDEF, NaN} THEN NaN ELSE 21 + f + r * 10

Str2Piece(str) ==
    CASE str = "p" -> blackPawn
      [] str = "r" -> blackRook
      [] str = "n" -> blackKnight
      [] str = "b" -> blackBishop
      [] str = "k" -> blackKing
      [] str = "q" -> blackQueen
      [] str = "P" -> whitePawn
      [] str = "R" -> whiteRook
      [] str = "N" -> whiteKnight
      [] str = "B" -> whiteBishop
      [] str = "K" -> whiteKing
      [] str = "Q" -> whiteQueen
      [] OTHER -> EMPTY

oppositeColor(color) == IF color = WHITE THEN BLACK ELSE WHITE

RealSquares == {sq \in 0..(BOARD_SIZE_SAFE - 1) : Sq120ToSq64(sq) # 65}

(***************************************************************************)
(* String primitives of the JavaScript runtime.                            *)
(***************************************************************************)
\* str.charAt(i - 1); "" past the end.
Char(s, i) == IF i \in 1..Len(s) THEN SubSeq(s, i, i) ELSE ""

\* Whether the one-character string ch occurs in the character class cls.
InClass(ch, cls) == \E i \in 1..Len(cls) : SubSeq(cls, i, i) = ch

\* Number of positions of s holding a character of cls: the length of
\* s.match(/[cls]/g) when that is not null.
CountIn(s, cls) == Cardinality({i \in 1..Len(s) : InClass(Char(s, i), cls)})

RECURSIVE TrimLeft(_)
TrimLeft(s) == IF Len(s) > 0 /\ Char(s, 1) = " " THEN TrimLeft(Tail(s)) ELSE s

RECURSIVE TrimRight(_)
TrimRight(s) ==
    IF Len(s) > 0 /\ Char(s, Len(s)) = " "
    THEN TrimRight(SubSeq(s, 1, Len(s) - 1)) ELSE s

\* String.prototype.trim, for strings whose only white space is the blank.
Trim(s) == TrimRight(TrimLeft(s))

\* Position of the first sep in s at or after position i, 0 if none.
RECURSIVE IndexFrom(_, _, _)
IndexFrom(s, sep, i) ==
    IF i > Len(s) THEN 0
    ELSE IF Char(s, i) = sep THEN i
    ELSE IndexFrom(s, sep, i + 1)

\* s.split(sep) for a one-character separator: the sequence of the pieces,
\* empty pieces included.
RECURSIVE Split(_, _)
Split(s, sep) ==
    LET i == IndexFrom(s, sep, 1)
    IN  IF i = 0 THEN <<s>>
        ELSE <<SubSeq(s, 1, i - 1)>> \o Split(SubSeq(s, i + 1, Len(s)), sep)

Reverse(seq) == [i \in 1..Len(seq) |-> seq[Len(seq) + 1 - i]]

Digits == "0123456789"

DigitVal(ch) == (CHOOSE i \in 1..10 : SubSeq(Digits, i, i) = ch) - 1

\* Length of the longest prefix of s made of decimal digits.
RECURSIVE DigitPrefix(_, _)
DigitPrefix(s, i) ==
    IF i <= Len(s) /\ InClass(Char(s, i), Digits)
    THEN DigitPrefix(s, i + 1) ELSE i - 1

RECURSIVE DigitsValue(_, _)
DigitsValue(s, n) ==
    IF n = 0 THEN 0 ELSE DigitsValue(s, n - 1) * 10 + DigitVal(Char(s, n))

\* parseInt(s, 10) for a string without sign or leading white space; the
\* undefined element of an array past its end is passed as "".
ParseInt(s) ==
    LET n == DigitPrefix(s, 1) IN IF n = 0 THEN NaN ELSE DigitsValue(s, n)

\* Number.prototype.toString / string conversion in a join or a template.
RECURSIVE Num2Str(_)
Num2Str(n) ==
    IF n = NaN THEN "NaN"
    ELSE IF n = UNDEF THEN "undefined"
    ELSE IF n < 10 THEN Char(Digits, n + 1)
    ELSE Num2Str(n \div 10) \o Char(Digits, (n % 10) + 1)

(***************************************************************************)
(* validator.ts                                                            *)
(***************************************************************************)
PlacementClass == "rnbqkpRNBQKP12345678"
EmptyDigits == "12345678"

\* The strings of -|KQ?k?q?|K?Qk?q?|K?Q?kq?|K?Q?k?q : "-" and the non-empty
\* subsequences of KQkq.
CastlingStrings ==
    {"-", "K", "Q", "k", "q", "KQ", "Kk", "Kq", "Qk", "Qq", "kq",
     "KQk", "KQq", "Kkq", "Qkq", "KQkq"}

AllIn(s, cls) == Len(s) > 0 /\ \A i \in 1..Len(s) : InClass(Char(s, i), cls)

\* ([rnbqkpRNBQKP1-8]+\/){7}([rnbqkpRNBQKP1-8]+) : the class holds no slash,
\* so the field matches iff it splits at the slashes into exactly eight
\* non-empty runs of the class.
PlacementRe(s) ==
    LET ranks == Split(s, "/")
    IN  Len(ranks) = 8 /\ \A i \in 1..8 : AllIn(ranks[i], PlacementClass)

EnPassantRe(s) ==
    \/ s = "-"
    \/ Len(s) = 2 /\ InClass(Char(s, 1), FILES_CHAR) /\ InClass(Char(s, 2), "36")

\* The rough regular expression of isValidFen, anchored at both ends.  No
\* group can match a blank, so the string matches iff it splits at the blanks
\* into exactly six fields, each matching its group.
FenRegEx(fen) ==
    LET f == Split(fen, " ")
    IN  /\ Len(f) = 6
        /\ PlacementRe(f[1])
        /\ f[2] \in {"b", "w"}
        /\ f[3] \in CastlingStrings
        /\ EnPassantRe(f[4])
        /\ AllIn(f[5], Digits)
        /\ AllIn(f[6], Digits)

\* fields[0].replace(/[1-8]/g, (str) => " ".repeat(parseInt(str, 10))).length
RowSum(placement) ==
    LET w[i \in 0..Len(placement)] ==
            IF i = 0 THEN 0
            ELSE w[i - 1] + (IF InClass(Char(placement, i), EmptyDigits)
                             THEN DigitVal(Char(placement, i)) ELSE 1)
    IN  w[Len(placement)]

ConsecutiveDigits(placement) ==
    \E i \in 1..(Len(placement) - 1) :
        /\ InClass(Char(placement, i), EmptyDigits)
        /\ InClass(Char(placement, i + 1), EmptyDigits)

ValidationError(msg) == [kind |-> "ValidationError", message |-> msg]
\* Reading .length of the null that String.prototype.match returns when
\* nothing matches.
NullLengthError ==
    [kind |-> "TypeError", message |-> "Cannot read properties of null"]
ReturnsTrue == [kind |-> "true", message |-> ""]

isValidBoard(variant, fields) ==
    LET k == CountIn(fields[1], "k")
        K == CountIn(fields[1], "K")
        p == CountIn(fields[1], "p")
        P == CountIn(fields[1], "P")
        ranks == Split(fields[1], "/")
        halfMovesClock == ParseInt(fields[5])
        fullMoves == ParseInt(fields[6])
        blackIsNext == fields[2] = "b"
    IN  IF variant # VARIANT_DEFAULT
            THEN ValidationError("Chess Variant not supported")
        ELSE IF k = 0 THEN NullLengthError
        ELSE IF k # 1 THEN ValidationError("More than 1 king")
        ELSE IF K = 0 THEN NullLengthError
        ELSE IF K # 1 THEN ValidationError("More than 1 king")
        ELSE IF p = 0 THEN NullLengthError
        ELSE IF p > 8 THEN ValidationError("More than 8 pawns")
        ELSE IF P = 0 THEN NullLengthError
        ELSE IF P > 8 THEN ValidationError("More than 8 pawns")
        ELSE IF CountIn(ranks[1], "pP") > 0 \/ CountIn(ranks[8], "pP") > 0
            THEN ValidationError("Pawn in first or last rank")
        ELSE IF fields[4] # "-" /\ halfMovesClock # 0
            THEN ValidationError("Halfmove Clock must be 0 in case of en passant")
        ELSE IF halfMovesClock >
                    (fullMoves - 1) * 2 + (IF blackIsNext THEN 1 ELSE 0)
            THEN ValidationError("Invalid Halfmove Clock or Fullmoves Count")
        ELSE IF halfMovesClock < 0 \/ fullMoves < 1
            THEN ValidationError("Invalid Halfmove Clock or Fullmoves Count")
        ELSE ReturnsTrue

\* isValidFen(fen, variant) for a string argument: what it returns or throws.
isValidFen(fenArg, variant) ==
    LET fen == Trim(fenArg)
        fields == Split(fen, " ")
    IN  IF ~FenRegEx(fen) THEN ValidationError("FEN did not pass RegEx")
        ELSE IF Len(Split(fields[1], "/")) # 8
            THEN ValidationError("FEN does not have 8 files")
        ELSE IF RowSum(fields[1]) # 71
            THEN ValidationError("FEN has invalid row sum")
        ELSE IF ConsecutiveDigits(fields[1])
            THEN ValidationError("FEN has consecutive 'empty' numbers")
        ELSE IF variant = VARIANT_UNKNOWN THEN ReturnsTrue
        ELSE isValidBoard(variant, fields)

(***************************************************************************)
(* parser.ts                                                               *)
(***************************************************************************)
HasBit(n, bit) == (n \div bit) % 2 = 1
SetBit(n, bit) == IF HasBit(n, bit) THEN n ELSE n + bit
ClearBit(n, bit) == IF HasBit(n, bit) THEN n - bit ELSE n

OffboardBoard == [sq \in 0..(BOARD_SIZE_SAFE - 1) |-> OFFBOARD]

\* The while loop of Fen2Board over one rank string, from (fileIndex,
\* charPos) on; cells is the board so far.  FileRank2Square throws on file 8
\* (a run of empties that crosses the h-file) and on rank 8 (a ninth rank).
RECURSIVE Fen2BoardRank(_, _, _, _, _)
Fen2BoardRank(cells, rank, rankIndex, fileIndex, charPos) ==
    IF fileIndex > FILE_H THEN [threw |-> FALSE, board |-> cells]
    ELSE LET ch == Char(rank, charPos + 1)
             digit == ParseInt(ch)
         IN  IF digit = NaN
             THEN IF FileRank2SquareThrows(fileIndex, rankIndex)
                  THEN [threw |-> TRUE, board |-> cells]
                  ELSE Fen2BoardRank(
                         [cells EXCEPT ![FileRank2Square(fileIndex, rankIndex)] =
                                          Str2Piece(ch)],
                         rank, rankIndex, fileIndex + 1, charPos + 1)
             ELSE IF \E counter \in 0..(digit - 1) :
                        FileRank2SquareThrows(fileIndex + counter, rankIndex)
                  THEN [threw |-> TRUE, board |-> cells]
                  ELSE Fen2BoardRank(
                         [sq \in DOMAIN cells |->
                            IF \E counter \in 0..(digit - 1) :
                                 sq = FileRank2Square(fileIndex + counter, rankIndex)
                            THEN EMPTY ELSE cells[sq]],
                         rank, rankIndex, fileIndex + digit, charPos + 1)

RECURSIVE Fen2BoardRanks(_, _, _)
Fen2BoardRanks(cells, ranks, rankIndex) ==
    IF rankIndex >= Len(ranks) THEN [threw |-> FALSE, board |-> cells]
    ELSE LET r == Fen2BoardRank(cells, ranks[rankIndex + 1], rankIndex, 0, 0)
         IN  IF r.threw THEN r ELSE Fen2BoardRanks(r.board, ranks, rankIndex + 1)

\* The ranks taken in the order of the string, rank 8 onto rank 1.
Fen2BoardUnreversed(pieces) ==
    Fen2BoardRanks(OffboardBoard, Split(pieces, "/"), 0)

Fen2Board(pieces) ==
    Fen2BoardRanks(OffboardBoard, Reverse(Split(pieces, "/")), 0)

\* FILES[`${c.toUpperCase()}_`] and RANKS[`_${c}`]: undefined for a missing key.
FileOfChar(c) ==
    IF \E i \in 1..8 : Char(FILES_CHAR, i) = c \/ Char("ABCDEFGH", i) = c
    THEN (CHOOSE i \in 1..8 : Char(FILES_CHAR, i) = c \/ Char("ABCDEFGH", i) = c) - 1
    ELSE UNDEF

RankOfChar(c) ==
    IF InClass(c, RANKS_CHAR)
    THEN (CHOOSE i \in 1..8 : Char(RANKS_CHAR, i) = c) - 1
    ELSE UNDEF

Fen2EnPassant(enPassant) ==
    IF enPassant = "-" THEN 0
    ELSE FileRank2Square(FileOfChar(Char(enPassant, 1)),
                         RankOfChar(Char(enPassant, 2)))

EnPassant2Fen(enPassant) ==
    IF enPassant = 0 THEN "-"
    ELSE LET arr == Square2FileRank(enPassant)
         IN  Char(FILES_CHAR, arr[1] + 1) \o Num2Str(arr[2])

Fen2Castling(castling) ==
    LET acc[i \in 0..Len(castling)] ==
            IF i = 0 THEN 0
            ELSE LET val == Char(castling, i)
                 IN  CASE val = "K" -> SetBit(acc[i - 1], WKCA)
                       [] val = "Q" -> SetBit(acc[i - 1], WQCA)
                       [] val = "k" -> SetBit(acc[i - 1], BKCA)
                       [] val = "q" -> SetBit(acc[i - 1], BQCA)
                       [] OTHER -> acc[i - 1]
    IN  acc[Len(castling)]

Castling2Fen(castlingAvailability) ==
    LET str == (IF HasBit(castlingAvailability, WKCA) THEN "K" ELSE "")
               \o (IF HasBit(castlingAvailability, WQCA) THEN "Q" ELSE "")
               \o (IF HasBit(castlingAvailability, BKCA) THEN "k" ELSE "")
               \o (IF HasBit(castlingAvailability, BQCA) THEN "q" ELSE "")
    IN  IF str = "" THEN "-" ELSE str

\* PIECES_CHAR[piece] appended to a string.
PieceChar(piece) ==
    IF piece \in Pieces THEN Char(PIECES_CHAR, piece + 1) ELSE "undefined"

\* The inner loop of Board2Fen over the files of one rank, from `file' on.
RECURSIVE Board2FenRank(_, _, _, _, _)
Board2FenRank(board, rank, file, rankStr, emptyCount) ==
    IF file > FILE_H
    THEN (IF emptyCount > 0 THEN rankStr \o Num2Str(emptyCount) ELSE rankStr)
    ELSE LET piece == board[FileRank2Square(file, rank)]
         IN  IF piece = EMPTY
             THEN Board2FenRank(board, rank, file + 1, rankStr, emptyCount + 1)
             ELSE Board2FenRank(board, rank, file + 1,
                    (IF emptyCount > 0 THEN rankStr \o Num2Str(emptyCount)
                     ELSE rankStr) \o PieceChar(piece), 0)

RECURSIVE JoinFrom(_, _, _)
JoinFrom(parts, sep, i) ==
    IF i > Len(parts) THEN ""
    ELSE IF i = Len(parts) THEN parts[i]
    ELSE parts[i] \o sep \o JoinFrom(parts, sep, i + 1)

Join(parts, sep) == JoinFrom(parts, sep, 1)

\* The ranks emitted from 1 up to 8.
Board2FenFromRank1(board) ==
    Join([i \in 1..8 |-> Board2FenRank(board, RANK_1 + i - 1, FILE_A, "", 0)], "/")

Board2Fen(board) ==
    Join([i \in 1..8 |-> Board2FenRank(board, RANK_8 + 1 - i, FILE_A, "", 0)], "/")

exportFen(board, color, castlingAvailability, enPassant, halfMoveClock, fullMoveNumber) ==
    Join(<<Board2Fen(board),
           IF color = WHITE THEN "w" ELSE "b",
           Castling2Fen(castlingAvailability),
           Num2Str(enPassant),
           Num2Str(halfMoveClock),
           Num2Str(fullMoveNumber)>>, " ")

\* What importFen(fen) does: returns the position properties ("props"),
\* returns the message of the error isValidFen threw ("string"), or lets the
\* error thrown by Fen2Board escape ("throw").
NoProps ==
    [board |-> <<>>, color |-> 0, castlingAvailability |-> 0,
     enPassantSquare |-> 0, halfMoveClock |-> 0, fullMoveNumber |-> 0]

importFen(fen) ==
    LET valid == isValidFen(Trim(fen), VARIANT_UNKNOWN)
        fields == Split(fen, " ")
        b == Fen2Board(fields[1])
    IN  IF valid.kind # "true"
        THEN [kind |-> "string", message |-> valid.message, props |-> NoProps]
        ELSE IF b.threw
        THEN [kind |-> "throw", message |-> "Invalid file or rank", props |-> NoProps]
        ELSE [kind |-> "props", message |-> "",
              props |-> [board |-> b.board,
                         color |-> IF fields[2] = "w" THEN WHITE ELSE BLACK,
                         castlingAvailability |-> Fen2Castling(fields[3]),
                         enPassantSquare |-> Fen2EnPassant(fields[4]),
                         halfMoveClock |-> ParseInt(fields[5]),
                         fullMoveNumber |-> ParseInt(fields[6])]]

(***************************************************************************)
(* chessgame.ts: class ChessPosition.  A position is a record of the       *)
(* instance fields; the field `error' holds "" for the value false.        *)
(***************************************************************************)
\* this.board[i]: undefined outside the array.
At(board, i) == IF i \in DOMAIN board THEN board[i] ELSE UNDEF

\* The object the constructor builds from the result of importFen.
NewPosition(res) ==
    IF res.kind = "string"
    THEN [error |-> res.message] @@ NoProps
    ELSE [error |-> ""] @@ res.props

\* toFen()
toFen(p) ==
    exportFen(p.board, p.color, p.castlingAvailability, p.enPassantSquare,
              p.halfMoveClock, p.fullMoveNumber)

\* The ray loop cut after its first cell.
AttackRayOneCell(board, t_sq, dir, color, slider) ==
    LET piece == At(board, t_sq)
    IN  /\ piece # OFFBOARD
        /\ piece # EMPTY
        /\ (IF slider = "rook" THEN PieceRookQueen(piece)
            ELSE PieceBishopQueen(piece))
        /\ PieceColor(piece) = color

\* One of the ray loops of isSquareAttacked, from t_sq on: whether the first
\* non-empty cell holds a piece of `color' of the class `slider'.
RECURSIVE AttackRay(_, _, _, _, _)
AttackRay(board, t_sq, dir, color, slider) ==
    LET piece == At(board, t_sq)
    IN  IF piece = OFFBOARD THEN FALSE
        ELSE IF piece # EMPTY
        THEN (IF slider = "rook" THEN PieceRookQueen(piece)
              ELSE PieceBishopQueen(piece)) /\ PieceColor(piece) = color
        ELSE AttackRay(board, t_sq + dir, dir, color, slider)

PawnAttacks(board, sq, color) ==
    IF color = WHITE
    THEN At(board, sq - 11) = whitePawn \/ At(board, sq - 9) = whitePawn
    ELSE At(board, sq + 11) = blackPawn \/ At(board, sq + 9) = blackPawn

\* isSquareAttacked(sq, color) on a board, for color WHITE or BLACK.
isSquareAttacked(board, sq, color) ==
    \/ PawnAttacks(board, sq, color)
    \/ \E i \in 1..8 :
          LET piece == At(board, sq + KnightDirections[i])
          IN  piece # OFFBOARD /\ PieceColor(piece) = color /\ PieceKnight(piece)
    \/ \E i \in 1..4 :
          AttackRay(board, sq + RookDirections[i], RookDirections[i], color, "rook")
    \/ \E i \in 1..4 :
          AttackRay(board, sq + BishopDirections[i], BishopDirections[i], color,
                    "bishop")
    \/ \E i \in 1..8 :
          LET piece == At(board, sq + KingDirections[i])
          IN  piece # OFFBOARD /\ PieceColor(piece) = color /\ PieceKing(piece)

\* The ray loop taking the first non-empty square whatever its color.
RECURSIVE MoveRayCapturingAny(_, _, _, _, _)
MoveRayCapturingAny(board, sq, t_sq, dir, colorOfPiece) ==
    LET t_piece == At(board, t_sq)
    IN  IF t_piece = OFFBOARD THEN <<>>
        ELSE IF t_piece = EMPTY
        THEN <<<<sq, t_sq>>>>
             \o MoveRayCapturingAny(board, sq, t_sq + dir, dir, colorOfPiece)
        ELSE <<<<sq, t_sq>>>>

\* One of the ray loops of getPossibleSquares, from t_sq on.
RECURSIVE MoveRay(_, _, _, _, _)
MoveRay(board, sq, t_sq, dir, colorOfPiece) ==
    LET t_piece == At(board, t_sq)
    IN  IF t_piece = OFFBOARD THEN <<>>
        ELSE IF t_piece = EMPTY
        THEN <<<<sq, t_sq>>>> \o MoveRay(board, sq, t_sq + dir, dir, colorOfPiece)
        ELSE IF PieceColor(t_piece) = oppositeColor(colorOfPiece)
        THEN <<<<sq, t_sq>>>>
        ELSE <<>>

RECURSIVE MoveRays(_, _, _, _, _)
MoveRays(board, sq, dirs, i, colorOfPiece) ==
    IF i > Len(dirs) THEN <<>>
    ELSE MoveRay(board, sq, sq + dirs[i], dirs[i], colorOfPiece)
         \o MoveRays(board, sq, dirs, i + 1, colorOfPiece)

\* dirs.filter(keep).map((dir) => [sq, sq + dir])
\* keep[i] is the filter's verdict on dirs[i]
StepMoves(sq, dirs, keep) ==
    LET acc[i \in 0..Len(dirs)] ==
            IF i = 0 THEN <<>>
            ELSE acc[i - 1]
                 \o (IF keep[i] THEN <<<<sq, sq + dirs[i]>>>> ELSE <<>>)
    IN  acc[Len(dirs)]

\* The pawn moves with the double step offered from every rank.
PawnMovesTwoStepsAnywhere(p, sq) ==
    LET board == p.board
        piece == board[sq]
        colorOfPiece == PieceColor(piece)
        mult == IF colorOfPiece = WHITE THEN 1 ELSE -1
        homeRank == TRUE
        capture(m) == /\ At(board, sq + m) # OFFBOARD
                      /\ At(board, sq + m) # EMPTY
                      /\ PieceColor(At(board, sq + m)) = oppositeColor(colorOfPiece)
        \* conditions[index](mult * dir), m being mult * dir
        condition(m) ==
            CASE m = mult * 10 -> /\ At(board, sq + m) # OFFBOARD
                                  /\ At(board, sq + m) = EMPTY
              [] m = mult * 20 -> /\ homeRank
                                  /\ At(board, sq + (m \div 2)) = EMPTY
                                  /\ At(board, sq + m) = EMPTY
              [] OTHER -> capture(m)
        directions == <<10, 20, 11, 9>>
        steps == StepMoves(sq, [i \in 1..4 |-> mult * directions[i]],
                          [i \in 1..4 |-> condition(mult * directions[i])])
        epFile == Square2FileRank(p.enPassantSquare)[1]
        pawnFile == Square2FileRank(sq)[1]
        pawnRank == Square2FileRank(sq)[2]
        correctRank == \/ colorOfPiece = WHITE /\ pawnRank = RANK_5
                       \/ colorOfPiece = BLACK /\ pawnRank = RANK_4
        adjacentFile == epFile - pawnFile \in {1, -1}
        captureSquare == IF colorOfPiece = WHITE
                         THEN p.enPassantSquare + 10
                         ELSE p.enPassantSquare - 10
        enPassant ==
            IF /\ p.enPassantSquare # 0
               /\ correctRank
               /\ adjacentFile
               /\ At(board, captureSquare) # EMPTY
               /\ PiecePawn(At(board, captureSquare))
               /\ PieceColor(At(board, captureSquare)) = oppositeColor(colorOfPiece)
            THEN <<<<sq, p.enPassantSquare>>>>
            ELSE <<>>
    IN  steps \o enPassant

PawnMoves(p, sq) ==
    LET board == p.board
        piece == board[sq]
        colorOfPiece == PieceColor(piece)
        mult == IF colorOfPiece = WHITE THEN 1 ELSE -1
        homeRank == \/ colorOfPiece = WHITE /\ Square2FileRank(sq)[2] = RANK_2
                    \/ colorOfPiece = BLACK /\ Square2FileRank(sq)[2] = RANK_7
        capture(m) == /\ At(board, sq + m) # OFFBOARD
                      /\ At(board, sq + m) # EMPTY
                      /\ PieceColor(At(board, sq + m)) = oppositeColor(colorOfPiece)
        \* conditions[index](mult * dir), m being mult * dir
        condition(m) ==
            CASE m = mult * 10 -> /\ At(board, sq + m) # OFFBOARD
                                  /\ At(board, sq + m) = EMPTY
              [] m = mult * 20 -> /\ homeRank
                                  /\ At(board, sq + (m \div 2)) = EMPTY
                                  /\ At(board, sq + m) = EMPTY
              [] OTHER -> capture(m)
        directions == <<10, 20, 11, 9>>
        steps == StepMoves(sq, [i \in 1..4 |-> mult * directions[i]],
                          [i \in 1..4 |-> condition(mult * directions[i])])
        epFile == Square2FileRank(p.enPassantSquare)[1]
        pawnFile == Square2FileRank(sq)[1]
        pawnRank == Square2FileRank(sq)[2]
        correctRank == \/ colorOfPiece = WHITE /\ pawnRank = RANK_5
                       \/ colorOfPiece = BLACK /\ pawnRank = RANK_4
        adjacentFile == epFile - pawnFile \in {1, -1}
        captureSquare == IF colorOfPiece = WHITE
                         THEN p.enPassantSquare + 10
                         ELSE p.enPassantSquare - 10
        enPassant ==
            IF /\ p.enPassantSquare # 0
               /\ correctRank
               /\ adjacentFile
               /\ At(board, captureSquare) # EMPTY
               /\ PiecePawn(At(board, captureSquare))
               /\ PieceColor(At(board, captureSquare)) = oppositeColor(colorOfPiece)
            THEN <<<<sq, p.enPassantSquare>>>>
            ELSE <<>>
    IN  steps \o enPassant

\* The castling moves appended for a king on sq, in the order of the code.
CastlingMoves(p, sq) ==
    LET board == p.board
        colorOfPiece == PieceColor(board[sq])
        rank == IF colorOfPiece = WHITE THEN RANK_1 ELSE RANK_8
        rook == IF colorOfPiece = WHITE THEN whiteRook ELSE blackRook
        enemy == oppositeColor(colorOfPiece)
        kingBit == IF colorOfPiece = WHITE THEN WKCA ELSE BKCA
        queenBit == IF colorOfPiece = WHITE THEN WQCA ELSE BQCA
        S(f) == FileRank2Square(f, rank)
        kingSide ==
            /\ HasBit(p.castlingAvailability, kingBit)
            /\ board[S(FILE_F)] = EMPTY
            /\ board[S(FILE_G)] = EMPTY
            /\ board[S(FILE_H)] = rook
            /\ ~isSquareAttacked(board, sq, enemy)
            /\ ~isSquareAttacked(board, S(FILE_F), enemy)
            /\ ~isSquareAttacked(board, S(FILE_G), enemy)
        queenSide ==
            /\ HasBit(p.castlingAvailability, queenBit)
            /\ board[S(FILE_B)] = EMPTY
            /\ board[S(FILE_C)] = EMPTY
            /\ board[S(FILE_D)] = EMPTY
            /\ board[S(FILE_A)] = rook
            /\ ~isSquareAttacked(board, sq, enemy)
            /\ ~isSquareAttacked(board, S(FILE_D), enemy)
            /\ ~isSquareAttacked(board, S(FILE_C), enemy)
    IN  (IF kingSide THEN <<<<sq, S(FILE_G)>>>> ELSE <<>>)
        \o (IF queenSide THEN <<<<sq, S(FILE_C)>>>> ELSE <<>>)

getPossibleSquaresThrows(p, sq) == At(p.board, sq) \in {OFFBOARD, EMPTY}

\* getPossibleSquares(sq) for a square holding a piece: the array of moves
\* [sq, destination] in the order the code pushes them.
getPossibleSquares(p, sq) ==
    LET board == p.board
        piece == board[sq]
        colorOfPiece == PieceColor(piece)
    IN  IF PiecePawn(piece) THEN PawnMoves(p, sq)
        ELSE IF PieceKnight(piece)
        THEN StepMoves(sq, KnightDirections,
                 [i \in 1..Len(KnightDirections) |->
                     LET dir == KnightDirections[i]
                     IN  \/ At(board, sq + dir) = EMPTY
                         \/ PieceColor(At(board, sq + dir)) =
                                oppositeColor(colorOfPiece)])
        ELSE IF PieceBishopQueen(piece) /\ ~PieceRookQueen(piece)
        THEN MoveRays(board, sq, BishopDirections, 1, colorOfPiece)
        ELSE IF PieceRookQueen(piece) /\ ~PieceBishopQueen(piece)
        THEN MoveRays(board, sq, RookDirections, 1, colorOfPiece)
        ELSE IF PieceRookQueen(piece) /\ PieceBishopQueen(piece)
        THEN MoveRays(board, sq, RookDirections, 1, colorOfPiece)
             \o MoveRays(board, sq, BishopDirections, 1, colorOfPiece)
        ELSE IF PieceKing(piece)
        THEN StepMoves(sq, KingDirections,
                 [i \in 1..Len(KingDirections) |->
                     LET dir == KingDirections[i]
                     IN  /\ At(board, sq + dir) # OFFBOARD
                         /\ \/ At(board, sq + dir) = EMPTY
                            \/ PieceColor(At(board, sq + dir)) =
                                   oppositeColor(colorOfPiece)])
             \o CastlingMoves(p, sq)
        ELSE <<>>

\* getMoveType(move)
getMoveType(p, mv) ==
    LET piece == p.board[mv[1]]
        srcFile == Square2FileRank(mv[1])[1]
        dstFile == Square2FileRank(mv[2])[1]
    IN  IF PieceKing(piece) /\ dstFile - srcFile \in {2, -2}
        THEN (IF dstFile > srcFile THEN MOVE_KingSideCastling
              ELSE MOVE_QueenSideCastling)
        ELSE IF PiecePawn(piece) /\ p.board[mv[2]] = EMPTY /\ dstFile # srcFile
        THEN MOVE_EnPassant
        ELSE MOVE_NORMAL

\* The guard misplaced on the destination square.
moveThrowsOnEmptyDestination(p, mv) == At(p.board, mv[2]) = EMPTY

\* The guard at the head of move(): "No piece on Square".
moveThrows(p, mv) == At(p.board, mv[1]) = EMPTY

\* The castling rights after the piece on mv[1] has moved to mv[2], where
\* `destination' is what stood on mv[2].
CastlingAfterMove(p, mv, piece, destination) ==
    LET srcFile == Square2FileRank(mv[1])[1]
        capturedFile == Square2FileRank(mv[2])[1]
        ca0 == p.castlingAvailability
        ca1 == IF PieceKing(piece)
               THEN (IF p.color = WHITE
                     THEN ClearBit(ClearBit(ca0, WKCA), WQCA)
                     ELSE ClearBit(ClearBit(ca0, BKCA), BQCA))
               ELSE IF PieceRookQueen(piece) /\ ~PieceBishopQueen(piece)
               THEN (IF p.color = WHITE
                     THEN (IF srcFile = FILE_H THEN ClearBit(ca0, WKCA)
                           ELSE IF srcFile = FILE_A THEN ClearBit(ca0, WQCA)
                           ELSE ca0)
                     ELSE (IF srcFile = FILE_H THEN ClearBit(ca0, BKCA)
                           ELSE IF srcFile = FILE_A THEN ClearBit(ca0, BQCA)
                           ELSE ca0))
               ELSE ca0
    IN  IF destination # EMPTY /\ PieceRookQueen(destination)
        THEN (IF PieceColor(destination) = WHITE
              THEN (IF capturedFile = FILE_H THEN ClearBit(ca1, WKCA)
                    ELSE IF capturedFile = FILE_A THEN ClearBit(ca1, WQCA)
                    ELSE ca1)
              ELSE (IF capturedFile = FILE_H THEN ClearBit(ca1, BKCA)
                    ELSE IF capturedFile = FILE_A THEN ClearBit(ca1, BQCA)
                    ELSE ca1))
        ELSE ca1

\* The en-passant square put on the arrival square of the double step.
EnPassantAfterMoveOnDestination(mv, piece) ==
    LET srcRank == Square2FileRank(mv[1])[2]
        dstRank == Square2FileRank(mv[2])[2]
        dstFile == Square2FileRank(mv[2])[1]
    IN  IF PiecePawn(piece) /\ dstRank - srcRank \in {2, -2}
        THEN FileRank2Square(dstFile, dstRank)
        ELSE 0

\* The en-passant square after the piece on mv[1] has moved to mv[2].
EnPassantAfterMove(mv, piece) ==
    LET srcRank == Square2FileRank(mv[1])[2]
        dstRank == Square2FileRank(mv[2])[2]
        dstFile == Square2FileRank(mv[2])[1]
    IN  IF PiecePawn(piece) /\ dstRank - srcRank \in {2, -2}
        THEN FileRank2Square(dstFile, (srcRank + dstRank) \div 2)
        ELSE 0

\* The clock reset by pawn moves only.
HalfMoveClockAfterMovePawnOnly(p, piece, destination) ==
    IF PiecePawn(piece) THEN 0 ELSE p.halfMoveClock + 1

HalfMoveClockAfterMove(p, piece, destination) ==
    IF PiecePawn(piece) \/ destination # EMPTY THEN 0 ELSE p.halfMoveClock + 1

\* The move applied without the removal of the en-passant victim.
BoardAfterMoveKeepingVictim(p, mv) ==
    LET piece == p.board[mv[1]]
        moveType == getMoveType(p, mv)
        rank == IF p.color = WHITE THEN RANK_1 ELSE RANK_8
        rookSrc == IF moveType = MOVE_KingSideCastling
                   THEN FileRank2Square(FILE_H, rank)
                   ELSE FileRank2Square(FILE_A, rank)
        rookDst == IF moveType = MOVE_KingSideCastling
                   THEN FileRank2Square(FILE_F, rank)
                   ELSE FileRank2Square(FILE_D, rank)
        b2 == IF moveType \in {MOVE_KingSideCastling, MOVE_QueenSideCastling}
              THEN [[p.board EXCEPT ![rookDst] = p.board[rookSrc]]
                       EXCEPT ![rookSrc] = EMPTY]
              ELSE p.board
    IN  [[b2 EXCEPT ![mv[1]] = EMPTY] EXCEPT ![mv[2]] = piece]

\* The move applied without the relocation of the castling rook.
BoardAfterMoveLeavingRook(p, mv) ==
    LET piece == p.board[mv[1]]
        moveType == getMoveType(p, mv)
        capturedPawnSq == IF p.color = WHITE THEN mv[2] - 10 ELSE mv[2] + 10
        b1 == IF moveType = MOVE_EnPassant
              THEN [p.board EXCEPT ![capturedPawnSq] = EMPTY]
              ELSE p.board
    IN  [[b1 EXCEPT ![mv[1]] = EMPTY] EXCEPT ![mv[2]] = piece]

\* The board after move(mv): the en-passant victim removed, the castling
\* rook relocated, then the piece itself moved, in the order of the code.
BoardAfterMove(p, mv) ==
    LET piece == p.board[mv[1]]
        moveType == getMoveType(p, mv)
        capturedPawnSq == IF p.color = WHITE THEN mv[2] - 10 ELSE mv[2] + 10
        rank == IF p.color = WHITE THEN RANK_1 ELSE RANK_8
        b1 == IF moveType = MOVE_EnPassant
              THEN [p.board EXCEPT ![capturedPawnSq] = EMPTY]
              ELSE p.board
        rookSrc == IF moveType = MOVE_KingSideCastling
                   THEN FileRank2Square(FILE_H, rank)
                   ELSE FileRank2Square(FILE_A, rank)
        rookDst == IF moveType = MOVE_KingSideCastling
                   THEN FileRank2Square(FILE_F, rank)
                   ELSE FileRank2Square(FILE_D, rank)
        b2 == IF moveType \in {MOVE_KingSideCastling, MOVE_QueenSideCastling}
              THEN [[b1 EXCEPT ![rookDst] = b1[rookSrc]] EXCEPT ![rookSrc] = EMPTY]
              ELSE b1
    IN  [[b2 EXCEPT ![mv[1]] = EMPTY] EXCEPT ![mv[2]] = piece]

\* The move applied with fullMoveNumber counting every move.
moveCountingEveryMove(p, mv) ==
    LET piece == p.board[mv[1]]
        destination == p.board[mv[2]]
    IN  [error |-> p.error,
         board |-> BoardAfterMove(p, mv),
         color |-> oppositeColor(p.color),
         castlingAvailability |-> CastlingAfterMove(p, mv, piece, destination),
         enPassantSquare |-> EnPassantAfterMove(mv, piece),
         halfMoveClock |-> HalfMoveClockAfterMove(p, piece, destination),
         fullMoveNumber |-> p.fullMoveNumber + 1]

\* The move applied with fullMoveNumber left as it is.
moveNeverCountingFullMoves(p, mv) ==
    LET piece == p.board[mv[1]]
        destination == p.board[mv[2]]
    IN  [error |-> p.error,
         board |-> BoardAfterMove(p, mv),
         color |-> oppositeColor(p.color),
         castlingAvailability |-> CastlingAfterMove(p, mv, piece, destination),
         enPassantSquare |-> EnPassantAfterMove(mv, piece),
         halfMoveClock |-> HalfMoveClockAfterMove(p, piece, destination),
         fullMoveNumber |-> p.fullMoveNumber]

\* move(mv) when it does not throw: the position it leaves.
move(p, mv) ==
    LET piece == p.board[mv[1]]
        destination == p.board[mv[2]]
    IN  [error |-> p.error,
         board |-> BoardAfterMove(p, mv),
         color |-> oppositeColor(p.color),
         castlingAvailability |-> CastlingAfterMove(p, mv, piece, destination),
         enPassantSquare |-> EnPassantAfterMove(mv, piece),
         halfMoveClock |-> HalfMoveClockAfterMove(p, piece, destination),
         fullMoveNumber |-> IF p.color = BLACK THEN p.fullMoveNumber + 1
                            ELSE p.fullMoveNumber]

\* isCheckmate(color): the king square is the constant 0 and the list of
\* moves to try is empty.
isCheckmate(p, color) ==
    LET kingSquare == 0
        allMoves == <<>>
    IN  IF ~isSquareAttacked(p.board, kingSquare, oppositeColor(color))
        THEN FALSE
        ELSE ~ \E i \in 1..Len(allMoves) :
                 LET mv == allMoves[i]
                     tried == [[p.board EXCEPT ![mv[2]] = p.board[mv[1]]]
                                 EXCEPT ![mv[1]] = EMPTY]
                 IN  ~isSquareAttacked(tried, kingSquare, oppositeColor(color))

(***************************************************************************)
(* The state machine: a caller hands a FEN string to the constructor and   *)
(* then plays on the object.                                               *)
(*   fen    the argument of the pending constructor call ("" for none)     *)
(*   pc     "new" before the constructor ran, "ready" when it returned an  *)
(*          object, "threw" when it threw                                  *)
(*   chess  the ChessPosition object (main.ts keeps it in `chess')         *)
(*   last   the last call made: the operation, its arguments, what it      *)
(*          returned or whether it threw, and the object as it was before  *)
(*   ply    the number of successful move() calls so far                   *)
(*   direct the number of direct move() calls so far                       *)
(* The queries toFen, isCheckmate, isSquareAttacked and getPossibleSquares *)
(* leave the object as it is; they are the operators above, applied to     *)
(* `chess' in the properties.                                              *)
(***************************************************************************)
VARIABLES fen, pc, chess, last, ply, direct

\* The engine manager module: its two module variables, the ChessEngine
\* objects getEngine has created, the promises getEngine has returned, the
\* number of closeEngine calls, the microtask queue, and whether the queue
\* is being drained.
VARIABLES engineInstance, initializationPromise, engines, getCalls, closes, jobs, draining

\* One ChessEngine object on its own: its fields, the promises its calls have
\* returned (each with the state of its timer), the commands posted to the
\* worker and not yet answered, and the number of initialize calls.
VARIABLES worker, ready, isSearching, responseHandlers, infoBuffer, calls, inbox, starts

chessVars == <<fen, pc, chess, last, ply, direct>>

managerVars == <<engineInstance, initializationPromise, engines, getCalls, closes, jobs, draining>>

searchVars == <<worker, ready, isSearching, responseHandlers, infoBuffer, calls, inbox, starts>>

engineVars == <<managerVars, searchVars>>

vars == <<chessVars, engineVars>>

\* The manager module as it is loaded: no engine, no initialization.
ManagerLoaded ==
    /\ engineInstance = 0
    /\ initializationPromise = 0
    /\ engines = <<>>
    /\ getCalls = <<>>
    /\ closes = 0
    /\ jobs = <<>>
    /\ draining = FALSE

\* new ChessEngine(): the field initializers of the class.
EngineConstructed ==
    /\ worker = FALSE
    /\ ready = FALSE
    /\ isSearching = FALSE
    /\ responseHandlers = [bestmove |-> 0, info |-> 0]
    /\ infoBuffer = <<>>
    /\ calls = <<>>
    /\ inbox = <<>>
    /\ starts = 0

NoPosition == [error |-> ""] @@ NoProps

NoCall ==
    [op |-> "none", arg |-> "", variant |-> VARIANT_UNKNOWN, res |-> ReturnsTrue,
     mv |-> <<0, 0>>, generated |-> FALSE, threw |-> FALSE, pre |-> NoPosition]

\* Positions that exercise castling, en passant, pins, checks, mates, rooks
\* and queens on the a- and h-files, a pawn beside the arrival square of a
\* double step, a castling right held by a king off its home square, and an
\* en-passant square beside a running halfmove clock.
StartFens ==
    {"",
     FEN_START,
     "r3k2r/8/8/8/8/8/8/R3K2R w KQkq - 0 1",
     "r3k2r/8/8/8/R7/8/8/R3K2R w KQkq - 0 1",
     "rnbqkbnr/ppp1pppp/8/3pP3/8/8/PPPP1PPP/RNBQKBNR w KQkq d6 0 3",
     "4k3/4r3/8/8/8/8/4B3/4K3 w - - 0 1",
     "6k1/5ppp/8/8/8/8/8/n3R1K1 w - - 4 30",
     "4k3/8/8/8/3p4/8/4P3/4K3 w - - 0 1",
     "4k3/8/8/8/8/8/8/3KB2R w K - 0 1",
     "4k3/8/8/8/4P3/8/8/4K3 b - e3 5 1"}

\* The squares a direct move() call starts from and is aimed at.
ProbeSources == {21, 25, 28, 54, 64, 65, 85, 95}
ProbeTargets == {54, 65, 74}

Init ==
    /\ fen \in StartFens
    /\ pc = "new"
    /\ chess = NoPosition
    /\ last = NoCall
    /\ ply = 0
    /\ direct = 0
    /\ ManagerLoaded
    /\ EngineConstructed

\* new ChessPosition(fen)
Construct ==
    /\ pc = "new"
    /\ LET res == importFen(IF fen = "" THEN FEN_START ELSE fen)
       IN  IF res.kind = "throw"
           THEN /\ pc' = "threw"
                /\ chess' = chess
                /\ last' = [NoCall EXCEPT !.op = "constructor", !.arg = fen,
                                          !.threw = TRUE]
           ELSE /\ pc' = "ready"
                /\ chess' = NewPosition(res)
                /\ last' = [NoCall EXCEPT !.op = "constructor", !.arg = fen]
    /\ fen' = ""
    /\ UNCHANGED <<ply, direct>>
    /\ UNCHANGED engineVars

Usable == pc = "ready" /\ chess.error = ""

\* chess.move(mv): throws before it touches the object, or applies the move.
MoveCall(mv, generated) ==
    /\ last' = [NoCall EXCEPT !.op = "move", !.mv = mv, !.generated = generated,
                              !.threw = moveThrows(chess, mv), !.pre = chess]
    /\ IF moveThrows(chess, mv)
       THEN UNCHANGED <<chess, ply>>
       ELSE /\ chess' = move(chess, mv)
            /\ ply' = ply + 1

\* The board's click handlers: setSquareActive refuses an empty square and a
\* piece of the side not to move, lists getPossibleSquares(square), and
\* playMove applies the chosen entry with move().
PlayMove(sq) ==
    /\ Usable
    /\ ply < MaxPly
    /\ direct < MaxDirect
    /\ chess.board[sq] # EMPTY
    /\ PieceColor(chess.board[sq]) = chess.color
    /\ LET playerMoves == getPossibleSquares(chess, sq)
       IN  \E index \in 1..Len(playerMoves) : MoveCall(playerMoves[index], TRUE)
    /\ UNCHANGED <<fen, pc, direct>>
    /\ UNCHANGED engineVars

\* move([from, to]) called directly, whatever stands on `from'.
CallMove(from, to) ==
    /\ Usable
    /\ ply < MaxPly
    /\ direct < MaxDirect
    /\ direct' = direct + 1
    /\ MoveCall(<<from, to>>, FALSE)
    /\ UNCHANGED <<fen, pc>>
    /\ UNCHANGED engineVars

Next ==
    \/ Construct
    \/ \E sq \in RealSquares : PlayMove(sq)
    \/ \E from \in ProbeSources, to \in ProbeTargets : CallMove(from, to)

Spec == Init /\ [][Next]_vars

\* Strings the constructor accepts although no game leads to them: an
\* en-passant square that holds a piece, an en-passant square on the side of
\* the player to move, and a king left in check by the queen beside it.
EdgeFens ==
    {"4k3/3p4/3N4/4P3/8/8/8/4K3 w - d6 0 1",
     "4k3/8/8/4P3/3p4/3n4/8/4K3 w - d3 0 1",
     "r3k2r/8/8/8/8/8/4q3/R3K2R w KQkq - 0 1"}

InitEdge ==
    /\ fen \in EdgeFens
    /\ pc = "new"
    /\ chess = NoPosition
    /\ last = NoCall
    /\ ply = 0
    /\ direct = 0
    /\ ManagerLoaded
    /\ EngineConstructed

SpecEdge == InitEdge /\ [][Next]_vars

(***************************************************************************)
(* The FEN layer on its own: a caller validates a string with isValidFen   *)
(* and hands it to the constructor.                                        *)
(***************************************************************************)
FenPlacements ==
    {"rnbqkbnr/pppppppp/8/8/8/8/PPPPPPPP/RNBQKBNR",
     "4k3/8/8/8/8/8/8/4K3",
     "4k3/pppp4/8/8/8/8/4PPPP/4K3",
     "8/8/8/8/8/8/8/8",
     "4k3/p7/8/8/8/8/P7/8",
     "4k3/p7/8/8/8/8/P7/K3K3",
     "k3k3/p7/8/8/8/8/P7/4K3",
     "4k3/pppppppp/p7/8/8/8/P7/4K3",
     "4k3/p7/8/8/8/P7/PPPPPPPP/4K3",
     "P3k3/p7/8/8/8/8/P7/4K3",
     "4k3/p7/8/8/8/8/P7/4K2p",
     "rnbqkbn2/pppppppp/8/8/8/8/PPPPPPP/RNBQKBNR",
     "ppppppp2/7/8/8/8/8/8/8",
     "rnbqkbnr/pppppppp/44/8/8/8/PPPPPPPP/RNBQKBNR",
     "rnbqkbnr/pppppppp/7/8/8/8/PPPPPPPP/RNBQKBNR",
     "rnbqkbnr/pppppppp/8/8/8/PPPPPPPP/RNBQKBNR",
     "rnbqkbnr/pppppppp/8/8/8/8/PPPPPPPP/RNBQKBNX"}

FenSides == {"w", "b"}
FenCastlings == {"KQkq"}
FenEnPassants == {"-", "e3"}
FenHalfMoves == {"0", "5"}
FenFullMoves == {"1", "0", "3"}

FenInputs ==
    {Join(<<pl, sd, ca, ep, hm, fm>>, " ") :
        pl \in FenPlacements, sd \in FenSides, ca \in FenCastlings,
        ep \in FenEnPassants, hm \in FenHalfMoves, fm \in FenFullMoves}
    \cup {"", "fen", "8/8/8/8/8/8/8/8 w - -", FEN_START \o " 1",
          "4k3/8/8/8/8/8/8/4K3 w - - 0 1", "4k3/8/8/8/8/8/8/4K3 w qk - 0 1",
          "4k3/8/8/8/8/8/8/4K3 w Kq e4 0 1", "4k3/8/8/8/8/8/8/4K3 x Kq e6 0 1",
          " " \o FEN_START, FEN_START \o " ", "  " \o FEN_START,
          " rnbqkbnr/pppppppp/8/8/4P3/8/PPPP1PPP/RNBQKBNR b KQkq e3 0 1",
          "rnbqkbnr/pppppppp/8/8/8/8/PPPPPPPP/RNBQKBNR  w KQkq - 0 1"}

InitFen ==
    /\ fen \in FenInputs
    /\ pc = "new"
    /\ chess = NoPosition
    /\ last = NoCall
    /\ ply = 0
    /\ direct = 0
    /\ ManagerLoaded
    /\ EngineConstructed

\* isValidFen(fen, variant)
Validate(variant) ==
    /\ pc = "new"
    /\ last' = [NoCall EXCEPT !.op = "isValidFen", !.arg = fen,
                              !.variant = variant,
                              !.res = isValidFen(fen, variant)]
    /\ UNCHANGED <<fen, pc, chess, ply, direct>>
    /\ UNCHANGED engineVars

NextFen ==
    \/ Construct
    \/ \E variant \in {VARIANT_UNKNOWN, VARIANT_DEFAULT} : Validate(variant)

SpecFen == InitFen /\ [][NextFen]_vars

(***************************************************************************)
(* The queries and the coordinate functions called on their own: a board   *)
(* that holds a single rook, and one call of isSquareAttacked,             *)
(* Square2FileRank or FileRank2Square.  `last' records the call: its       *)
(* arguments, whether it threw and what it returned.  One call is made per *)
(* board.                                                                  *)
(***************************************************************************)
\* The 120-cell board with every real square empty.
EmptyBoard ==
    [i \in 0..(BOARD_SIZE_SAFE - 1) |->
        IF i \in RealSquares THEN EMPTY ELSE OFFBOARD]

\* A position whose board holds `piece' on sq and nothing else.
SinglePiece(piece, sq) ==
    [error |-> "", board |-> [EmptyBoard EXCEPT ![sq] = piece], color |-> WHITE,
     castlingAvailability |-> 0, enPassantSquare |-> 0, halfMoveClock |-> 0,
     fullMoveNumber |-> 1]

InitCalls ==
    /\ fen = ""
    /\ pc = "ready"
    /\ chess \in {SinglePiece(rook, sq) :
                    rook \in {whiteRook, blackRook}, sq \in RealSquares}
    /\ last = NoCall
    /\ ply = 0
    /\ direct = 0
    /\ ManagerLoaded
    /\ EngineConstructed

\* chess.isSquareAttacked(sq, color)
AttackQuery(sq, color) ==
    /\ last = NoCall
    /\ last' = [op |-> "isSquareAttacked", sq |-> sq, color |-> color,
                threw |-> FALSE,
                res |-> isSquareAttacked(chess.board, sq, color)]
    /\ UNCHANGED <<fen, pc, chess, ply, direct>>
    /\ UNCHANGED engineVars

\* Square2FileRank(sq)
Square2FileRankCall(sq) ==
    /\ last = NoCall
    /\ last' = [op |-> "Square2FileRank", sq |-> sq,
                threw |-> Square2FileRankThrows(sq),
                res |-> IF Square2FileRankThrows(sq) THEN <<>>
                        ELSE Square2FileRank(sq)]
    /\ UNCHANGED <<fen, pc, chess, ply, direct>>
    /\ UNCHANGED engineVars

\* FileRank2Square(f, r)
FileRank2SquareCall(f, r) ==
    /\ last = NoCall
    /\ last' = [op |-> "FileRank2Square", f |-> f, r |-> r,
                threw |-> FileRank2SquareThrows(f, r),
                res |-> IF FileRank2SquareThrows(f, r) THEN 0
                        ELSE FileRank2Square(f, r)]
    /\ UNCHANGED <<fen, pc, chess, ply, direct>>
    /\ UNCHANGED engineVars

NextCalls ==
    \/ \E sq \in RealSquares, color \in {WHITE, BLACK} : AttackQuery(sq, color)
    \/ \E sq \in 0..(BOARD_SIZE_SAFE - 1) : Square2FileRankCall(sq)
    \/ \E f \in FILE_A..FILE_NONE, r \in RANK_1..RANK_NONE :
           FileRank2SquareCall(f, r)

SpecCalls == InitCalls /\ [][NextCalls]_vars

(***************************************************************************)
(* The move generator and the placement codec called on their own, on      *)
(* boards that need not come from a game: one piece of any kind put on any *)
(* square of a scene, and one call of getPossibleSquares or Board2Fen.     *)
(***************************************************************************)
\* Pieces of both colors with empty squares between them.
Scattered ==
    [i \in 0..(BOARD_SIZE_SAFE - 1) |->
        IF i \notin RealSquares THEN OFFBOARD
        ELSE IF (3 * (i \div 10) + (i % 10)) % 7 = 0 THEN whiteRook
        ELSE IF (3 * (i \div 10) + (i % 10)) % 7 = 3 THEN blackKnight
        ELSE EMPTY]

\* A piece on every square.
Crowded ==
    [i \in 0..(BOARD_SIZE_SAFE - 1) |->
        IF i \notin RealSquares THEN OFFBOARD
        ELSE 1 + ((i + (i \div 10)) % 12)]

Scenes == {EmptyBoard, Scattered, Crowded}

\* The scene with `piece' put on sq.
Placed(scene, piece, sq) ==
    [SinglePiece(piece, sq) EXCEPT !.board = [scene EXCEPT ![sq] = piece]]

InitPieces ==
    /\ fen = ""
    /\ pc = "ready"
    /\ chess \in {Placed(scene, piece, sq) :
                    scene \in Scenes, piece \in whitePawn..blackKing,
                    sq \in RealSquares}
    /\ last = NoCall
    /\ ply = 0
    /\ direct = 0
    /\ ManagerLoaded
    /\ EngineConstructed

\* chess.getPossibleSquares(sq)
MovesQuery(sq) ==
    /\ last = NoCall
    /\ last' = [op |-> "getPossibleSquares", sq |-> sq,
                threw |-> getPossibleSquaresThrows(chess, sq),
                res |-> IF getPossibleSquaresThrows(chess, sq) THEN <<>>
                        ELSE getPossibleSquares(chess, sq)]
    /\ UNCHANGED <<fen, pc, chess, ply, direct>>
    /\ UNCHANGED engineVars

\* Board2Fen(chess.board)
Board2FenCall ==
    /\ last = NoCall
    /\ last' = [op |-> "Board2Fen", threw |-> FALSE,
                res |-> Board2Fen(chess.board)]
    /\ UNCHANGED <<fen, pc, chess, ply, direct>>
    /\ UNCHANGED engineVars

NextPieces ==
    \/ \E sq \in RealSquares : MovesQuery(sq)
    \/ Board2FenCall

SpecPieces == InitPieces /\ [][NextPieces]_vars

(***************************************************************************)
(* The engine manager.  getEngine and closeEngine are called from tasks: a *)
(* task makes any number of calls, then the microtask queue `jobs' is      *)
(* drained in order, and a worker event (a task of its own) is handled     *)
(* only when the queue is empty.  A promise is modelled by its state and   *)
(* the reactions registered on it, in registration order.                  *)
(*                                                                         *)
(* engines[k] is the k-th ChessEngine object getEngine created: `worker'   *)
(* tells whether this.worker holds a worker (one created and not           *)
(* terminated), `ready' is this.ready, `initialize' the state of the       *)
(* promise made in initialize(), `promise' the state of the promise of the *)
(* async function that initializes it (the k-th value of                   *)
(* initializationPromise, named k), and `reactions' the reactions          *)
(* registered on that promise.  0 stands for null.                         *)
(***************************************************************************)
\* const engine = new ChessEngine(); engine.initialize() up to its return:
\* `created' tells whether new Worker(WORKER_PATH) returned or threw.
NewEngine(created) ==
    [worker |-> created, ready |-> FALSE,
     initialize |-> IF created THEN "pending" ELSE "rejected",
     promise |-> "pending", reactions |-> <<>>]

Job(kind, promise, call) == [kind |-> kind, promise |-> promise, call |-> call]

\* engines[k].terminate()
terminateEngine(es, k) ==
    IF es[k].worker THEN [es EXCEPT ![k].worker = FALSE, ![k].ready = FALSE] ELSE es

\* The head of the microtask queue has run and left `rest' to run.
Drain(rest) ==
    /\ jobs' = rest
    /\ draining' = (rest # <<>>)

\* getEngine()
getEngine(created) ==
    /\ ~draining
    /\ Len(getCalls) < MaxGetCalls
    /\ LET call == Len(getCalls) + 1
       IN  IF engineInstance # 0 /\ engines[engineInstance].ready
           THEN /\ getCalls' = Append(getCalls, [state |-> "fulfilled", engine |-> engineInstance])
                /\ UNCHANGED <<engineInstance, initializationPromise, engines, jobs>>
           ELSE IF initializationPromise # 0
           THEN /\ getCalls' = Append(getCalls, [state |-> "pending", engine |-> 0])
                /\ jobs' = Append(jobs, Job("then", initializationPromise, call))
                /\ UNCHANGED <<engineInstance, initializationPromise, engines>>
           ELSE /\ Len(engines) < MaxEngines
                /\ engines' = Append(engines, NewEngine(created))
                /\ initializationPromise' = Len(engines) + 1
                /\ getCalls' = Append(getCalls, [state |-> "pending", engine |-> 0])
                /\ jobs' = jobs \o <<Job("adopt", Len(engines) + 1, 0),
                                     Job("then", Len(engines) + 1, call)>>
                /\ UNCHANGED engineInstance
    /\ UNCHANGED <<closes, draining>>
    /\ UNCHANGED <<chessVars, searchVars>>

\* closeEngine(), up to its await or, with no initializationPromise, whole.
closeEngine ==
    /\ ~draining
    /\ closes < MaxCloseCalls
    /\ closes' = closes + 1
    /\ IF initializationPromise # 0
       THEN /\ IF engines[initializationPromise].promise = "pending"
               THEN /\ engines' = [engines EXCEPT ![initializationPromise].reactions =
                                      Append(@, Job("close", initializationPromise, 0))]
                    /\ UNCHANGED jobs
               ELSE /\ jobs' = Append(jobs, Job("close", initializationPromise, 0))
                    /\ UNCHANGED engines
            /\ UNCHANGED <<engineInstance, initializationPromise>>
       ELSE /\ engines' = IF engineInstance # 0
                          THEN terminateEngine(engines, engineInstance)
                          ELSE engines
            /\ engineInstance' = 0
            /\ UNCHANGED <<initializationPromise, jobs>>
    /\ UNCHANGED <<getCalls, draining>>
    /\ UNCHANGED <<chessVars, searchVars>>

\* worker.onmessage with "uciok", for the worker of engines[k].
WorkerUciok(k) ==
    /\ jobs = <<>>
    /\ engines[k].worker
    /\ ~engines[k].ready
    /\ engines' = [engines EXCEPT ![k].ready = TRUE,
                                  ![k].initialize = IF @ = "pending" THEN "resolved" ELSE @]
    /\ jobs' = IF engines[k].initialize = "pending"
               THEN <<Job("initialized", k, 0)>>
               ELSE <<>>
    /\ UNCHANGED <<engineInstance, initializationPromise, getCalls, closes, draining>>
    /\ UNCHANGED <<chessVars, searchVars>>

\* worker.onerror before the engine has answered: the worker is left as it is.
WorkerError(k) ==
    /\ jobs = <<>>
    /\ engines[k].worker
    /\ engines[k].initialize = "pending"
    /\ engines' = [engines EXCEPT ![k].initialize = "rejected"]
    /\ jobs' = <<Job("initialized", k, 0)>>
    /\ UNCHANGED <<engineInstance, initializationPromise, getCalls, closes, draining>>
    /\ UNCHANGED <<chessVars, searchVars>>

\* The promise of the async initialize() follows the promise made inside it:
\* settled already (new Worker threw), or still pending.
AdoptInitialize ==
    /\ jobs # <<>>
    /\ Head(jobs).kind = "adopt"
    /\ Drain(IF engines[Head(jobs).promise].initialize = "pending"
             THEN Tail(jobs)
             ELSE Append(Tail(jobs), Job("initialized", Head(jobs).promise, 0)))
    /\ UNCHANGED <<engineInstance, initializationPromise, engines, getCalls, closes>>
    /\ UNCHANGED <<chessVars, searchVars>>

\* The promise of initialize() settles: the awaiting function is resumed.
SettleInitialize ==
    /\ jobs # <<>>
    /\ Head(jobs).kind = "initialized"
    /\ Drain(Append(Tail(jobs), Job("resume", Head(jobs).promise, 0)))
    /\ UNCHANGED <<engineInstance, initializationPromise, engines, getCalls, closes>>
    /\ UNCHANGED <<chessVars, searchVars>>

\* The async function of getEngine after `await engine.initialize()'.
ResumeInitialization ==
    /\ jobs # <<>>
    /\ Head(jobs).kind = "resume"
    /\ LET k == Head(jobs).promise
       IN  /\ IF engines[k].initialize = "resolved"
              THEN /\ engineInstance' = k
                   /\ engines' = [engines EXCEPT ![k].promise = "fulfilled",
                                                 ![k].reactions = <<>>]
                   /\ UNCHANGED initializationPromise
              ELSE /\ initializationPromise' = 0
                   /\ engines' = [engines EXCEPT ![k].promise = "rejected",
                                                 ![k].reactions = <<>>]
                   /\ UNCHANGED engineInstance
           /\ Drain(Tail(jobs) \o engines[k].reactions)
    /\ UNCHANGED <<getCalls, closes>>
    /\ UNCHANGED <<chessVars, searchVars>>

\* `return initializationPromise' of getEngine: the promise of the call
\* follows initializationPromise.
ThenInitialization ==
    /\ jobs # <<>>
    /\ Head(jobs).kind = "then"
    /\ LET k == Head(jobs).promise
           reaction == Job("settle", k, Head(jobs).call)
       IN  IF engines[k].promise = "pending"
           THEN /\ engines' = [engines EXCEPT ![k].reactions = Append(@, reaction)]
                /\ Drain(Tail(jobs))
           ELSE /\ Drain(Append(Tail(jobs), reaction))
                /\ UNCHANGED engines
    /\ UNCHANGED <<engineInstance, initializationPromise, getCalls, closes>>
    /\ UNCHANGED <<chessVars, searchVars>>

\* The promise of a getEngine() call settles as initializationPromise did.
SettleGetEngine ==
    /\ jobs # <<>>
    /\ Head(jobs).kind = "settle"
    /\ LET k == Head(jobs).promise
       IN  getCalls' = [getCalls EXCEPT ![Head(jobs).call] =
                           [state |-> engines[k].promise,
                            engine |-> IF engines[k].promise = "fulfilled" THEN k ELSE 0]]
    /\ Drain(Tail(jobs))
    /\ UNCHANGED <<engineInstance, initializationPromise, engines, closes>>
    /\ UNCHANGED <<chessVars, searchVars>>

\* closeEngine() after `await initializationPromise'.
ResumeCloseEngine ==
    /\ jobs # <<>>
    /\ Head(jobs).kind = "close"
    /\ LET k == Head(jobs).promise
           awaited == IF engines[k].promise = "fulfilled"
                      THEN terminateEngine(engines, k)
                      ELSE engines
       IN  engines' = IF engineInstance # 0
                      THEN terminateEngine(awaited, engineInstance)
                      ELSE awaited
    /\ initializationPromise' = 0
    /\ engineInstance' = 0
    /\ Drain(Tail(jobs))
    /\ UNCHANGED <<getCalls, closes>>
    /\ UNCHANGED <<chessVars, searchVars>>

\* No position is constructed while the engine is looked at.
NoChess ==
    /\ fen = ""
    /\ pc = "new"
    /\ chess = NoPosition
    /\ last = NoCall
    /\ ply = 0
    /\ direct = 0

InitManager ==
    /\ NoChess
    /\ ManagerLoaded
    /\ EngineConstructed

NextManager ==
    \/ \E created \in BOOLEAN : getEngine(created)
    \/ closeEngine
    \/ \E k \in 1..Len(engines) : WorkerUciok(k)
    \/ \E k \in 1..Len(engines) : WorkerError(k)
    \/ AdoptInitialize
    \/ SettleInitialize
    \/ ResumeInitialization
    \/ ThenInitialization
    \/ SettleGetEngine
    \/ ResumeCloseEngine

SpecManager == InitManager /\ [][NextManager]_vars

(***************************************************************************)
(* One ChessEngine object and its worker.  `worker' tells whether          *)
(* this.worker holds a worker; responseHandlers maps "bestmove" and "info" *)
(* to the call whose closure is registered (0: no entry); infoBuffer holds *)
(* the scores of the EngineInfo objects.  calls[c] is the promise of the   *)
(* c-th call: its state and value, the state of its timer, how often its   *)
(* resolve or reject function was called, the info lines received while an *)
(* evaluation call was pending (heard), and the bestmove message that      *)
(* resolved it (by), which names the call whose go command it answers. The *)
(* worker answers the commands of `inbox' in order: "uci" with "uciok",    *)
(* "go" with info lines and one bestmove; the other commands need no       *)
(* answer.  A message is handled when it is posted.  The microtasks that   *)
(* follow a settled promise run before any other task and read nothing a    *)
(* later call writes, so a promise settles within the step that settles it. *)
(***************************************************************************)
Command(cmd, call, limit) == [cmd |-> cmd, call |-> call, limit |-> limit, infos |-> 0]

NeedsAnswer(command) == command.cmd \in {"uci", "go"}

\* The commands of the inbox from the first one the worker answers.
RECURSIVE Unanswered(_)
Unanswered(commands) ==
    IF commands = <<>> \/ NeedsAnswer(Head(commands))
    THEN commands
    ELSE Unanswered(Tail(commands))

\* The info lines the worker posts: a depth line with a centipawn score,
\* with a mate score for and against, without a score, and a line that
\* names no depth.
InfoLines ==
    {[depth |-> TRUE, kind |-> "cp", n |-> 35],
     [depth |-> TRUE, kind |-> "mate", n |-> 3],
     [depth |-> TRUE, kind |-> "mate", n |-> -2],
     [depth |-> TRUE, kind |-> "none", n |-> 0],
     [depth |-> FALSE, kind |-> "cp", n |-> 70]}

\* null and an EngineInfo object, of which the score is kept.
\* The info lines of the searches that look at the best move only.
SearchLines == {[depth |-> TRUE, kind |-> "cp", n |-> 35]}

Null == [null |-> TRUE, score |-> 0]

EngineInfo(score) == [null |-> FALSE, score |-> score]

\* parseInfoResponse(response), the score of the result.
parseInfoResponse(response) ==
    IF ~response.depth
    THEN Null
    ELSE EngineInfo(CASE response.kind = "mate" ->
                             IF response.n > 0 THEN 100000 - response.n
                                               ELSE (-100000) - response.n
                      [] response.kind = "cp" -> response.n
                      [] OTHER -> 0)

\* evaluatePosition without its catch: a rejection is passed on.
evaluatePositionRethrowing(outcome) ==
    IF outcome.state = "rejected"
    THEN outcome
    ELSE IF Len(outcome.value) = 0
    THEN [state |-> "resolved", value |-> 0]
    ELSE [state |-> "resolved", value |-> outcome.value[Len(outcome.value)].score]

\* evaluatePosition, from the outcome of evaluatePositionDetailed.
evaluatePosition(outcome) ==
    IF outcome.state = "rejected"
    THEN [state |-> "resolved", value |-> 0]
    ELSE IF Len(outcome.value) = 0
    THEN [state |-> "resolved", value |-> 0]
    ELSE [state |-> "resolved", value |-> outcome.value[Len(outcome.value)].score]

\* A bestmove message, posted in answer to the go command of call `answers',
\* and no message.
Bestmove(bestMove, answers) == [type |-> "bestmove", move |-> bestMove, answers |-> answers]

NoMessage == [type |-> "none", move |-> "", answers |-> 0]

NewCall(op) ==
    [op |-> op, state |-> "pending", value |-> "", by |-> NoMessage,
     timeout |-> "none", settles |-> 0, heard |-> <<>>]

\* resolve(value) or reject(value) of the promise of call c, called by the
\* handler of the message `by' or by none.
settle(cs, c, state, value, by) ==
    LET outcome == IF cs[c].op = "evaluatePosition"
                   THEN evaluatePosition([state |-> state, value |-> value])
                   ELSE [state |-> state, value |-> value]
    IN  IF cs[c].state # "pending"
        THEN [cs EXCEPT ![c].settles = @ + 1]
        ELSE [cs EXCEPT ![c].state = outcome.state, ![c].value = outcome.value,
                        ![c].by = by, ![c].settles = @ + 1]

\* A handler that leaves the timer of its call armed.
clearTimeoutForgotten(cs, c) == cs

\* clearTimeout(timeout) of call c
clearTimeout(cs, c) ==
    [cs EXCEPT ![c].timeout = IF @ = "armed" THEN "cleared" ELSE @]

\* engine.initialize(): `created' tells whether new Worker returned or threw.
initialize(created) ==
    /\ ~worker
    /\ starts < MaxStarts
    /\ starts' = starts + 1
    /\ IF created
       THEN /\ worker' = TRUE
            /\ inbox' = <<Command("uci", 0, "")>>
       ELSE UNCHANGED <<worker, inbox>>
    /\ UNCHANGED <<ready, isSearching, responseHandlers, infoBuffer, calls>>
    /\ UNCHANGED <<chessVars, managerVars>>

\* getBestMove without its busy check.
getBestMoveUnchecked(depth) ==
    /\ Len(calls) < MaxCalls
    /\ LET c == Len(calls) + 1
           started == Append(calls, NewCall("getBestMove"))
       IN  IF worker
           THEN /\ isSearching' = TRUE
                /\ responseHandlers' = [responseHandlers EXCEPT !.bestmove = c]
                /\ inbox' = inbox \o <<Command("position", c, ""),
                                       Command("go", c, IF depth # 0 THEN "depth"
                                                                     ELSE "movetime")>>
                /\ calls' = [started EXCEPT ![c].timeout = "armed"]
           ELSE /\ isSearching' = FALSE
                /\ responseHandlers' = [responseHandlers EXCEPT !.bestmove = 0]
                /\ calls' = settle([started EXCEPT ![c].timeout = "cleared"], c,
                                   "rejected", "Engine not initialized", NoMessage)
                /\ UNCHANGED inbox
    /\ UNCHANGED <<worker, ready, infoBuffer, starts>>
    /\ UNCHANGED <<chessVars, managerVars>>

\* engine.getBestMove(fen, depth, timeMs); depth 0 stands for no depth.
getBestMove(depth) ==
    /\ Len(calls) < MaxCalls
    /\ LET c == Len(calls) + 1
           started == Append(calls, NewCall("getBestMove"))
       IN  IF isSearching
           THEN /\ calls' = settle(started, c, "rejected", "Engine is already searching", NoMessage)
                /\ UNCHANGED <<isSearching, responseHandlers, inbox>>
           ELSE IF worker
           THEN /\ isSearching' = TRUE
                /\ responseHandlers' = [responseHandlers EXCEPT !.bestmove = c]
                /\ inbox' = inbox \o <<Command("position", c, ""),
                                       Command("go", c, IF depth # 0 THEN "depth"
                                                                     ELSE "movetime")>>
                /\ calls' = [started EXCEPT ![c].timeout = "armed"]
           ELSE /\ isSearching' = FALSE
                /\ responseHandlers' = [responseHandlers EXCEPT !.bestmove = 0]
                /\ calls' = settle([started EXCEPT ![c].timeout = "cleared"], c,
                                   "rejected", "Engine not initialized", NoMessage)
                /\ UNCHANGED inbox
    /\ UNCHANGED <<worker, ready, infoBuffer, starts>>
    /\ UNCHANGED <<chessVars, managerVars>>

\* engine.evaluatePositionDetailed(fen, depth), called by the user or by
\* engine.evaluatePosition(fen, depth).
evaluatePositionDetailed(caller) ==
    /\ Len(calls) < MaxCalls
    /\ LET c == Len(calls) + 1
           started == Append(calls, NewCall(IF caller = "evaluatePosition"
                                            THEN "evaluatePosition"
                                            ELSE "evaluatePositionDetailed"))
       IN  IF isSearching
           THEN /\ calls' = settle(started, c, "rejected", "Engine is already searching", NoMessage)
                /\ UNCHANGED <<isSearching, responseHandlers, inbox, infoBuffer>>
           ELSE /\ infoBuffer' = <<>>
                /\ IF worker
                   THEN /\ isSearching' = TRUE
                        /\ responseHandlers' = [bestmove |-> c, info |-> c]
                        /\ inbox' = inbox \o <<Command("position", c, ""),
                                               Command("go", c, "depth")>>
                        /\ calls' = [started EXCEPT ![c].timeout = "armed"]
                   ELSE /\ isSearching' = FALSE
                        /\ responseHandlers' = [bestmove |-> 0, info |-> 0]
                        /\ calls' = settle([started EXCEPT ![c].timeout = "cleared"], c,
                                           "rejected", "Engine not initialized", NoMessage)
                        /\ UNCHANGED inbox
    /\ UNCHANGED <<worker, ready, starts>>
    /\ UNCHANGED <<chessVars, managerVars>>

\* The timer of call c fires.
Timeout(c) ==
    /\ c \in 1..Len(calls)
    /\ calls[c].timeout = "armed"
    /\ isSearching' = FALSE
    /\ IF calls[c].op = "getBestMove"
       THEN /\ responseHandlers' = [responseHandlers EXCEPT !.bestmove = 0]
            /\ calls' = settle([calls EXCEPT ![c].timeout = "fired"], c, "rejected",
                               "Engine search timeout", NoMessage)
       ELSE /\ responseHandlers' = [bestmove |-> 0, info |-> 0]
            /\ calls' = settle([calls EXCEPT ![c].timeout = "fired"], c, "rejected",
                               "Engine evaluation timeout", NoMessage)
    /\ UNCHANGED <<worker, ready, infoBuffer, inbox, starts>>
    /\ UNCHANGED <<chessVars, managerVars>>

\* engine.stopSearch()
stopSearch ==
    /\ isSearching
    /\ worker
    /\ Len(SelectSeq(inbox, LAMBDA command : command.cmd = "stop")) < MaxStops
    /\ inbox' = Append(inbox, Command("stop", 0, ""))
    /\ UNCHANGED <<worker, ready, isSearching, responseHandlers, infoBuffer, calls, starts>>
    /\ UNCHANGED <<chessVars, managerVars>>

\* engine.terminate(): the worker is gone with the commands it had not
\* answered; the handlers and the timers stay.
terminate ==
    /\ worker
    /\ worker' = FALSE
    /\ ready' = FALSE
    /\ isSearching' = FALSE
    /\ inbox' = <<>>
    /\ UNCHANGED <<responseHandlers, infoBuffer, calls, starts>>
    /\ UNCHANGED <<chessVars, managerVars>>

\* worker.onmessage with "uciok"
Uciok ==
    /\ worker
    /\ Unanswered(inbox) # <<>>
    /\ Head(Unanswered(inbox)).cmd = "uci"
    /\ inbox' = Tail(Unanswered(inbox))
    /\ ready' = TRUE
    /\ UNCHANGED <<worker, isSearching, responseHandlers, infoBuffer, calls, starts>>
    /\ UNCHANGED <<chessVars, managerVars>>

\* worker.onmessage with an info line of the search the worker is running.
InfoMessage(response) ==
    /\ worker
    /\ Unanswered(inbox) # <<>>
    /\ Head(Unanswered(inbox)).cmd = "go"
    /\ Head(Unanswered(inbox)).infos < MaxInfos
    /\ inbox' = [Unanswered(inbox) EXCEPT ![1].infos = @ + 1]
    /\ calls' = [c \in DOMAIN calls |->
                    IF calls[c].state = "pending" /\ calls[c].op # "getBestMove"
                    THEN [calls[c] EXCEPT !.heard = Append(@, response)]
                    ELSE calls[c]]
    /\ infoBuffer' = IF responseHandlers.info # 0 /\ parseInfoResponse(response) # Null
                     THEN Append(infoBuffer, parseInfoResponse(response))
                     ELSE infoBuffer
    /\ UNCHANGED <<worker, ready, isSearching, responseHandlers, starts>>
    /\ UNCHANGED <<chessVars, managerVars>>

\* The closure registered for "bestmove" by call c, called with a bestmove
\* message.
BestmoveHandler(c, message) ==
    IF calls[c].op = "getBestMove"
    THEN /\ responseHandlers' = [responseHandlers EXCEPT !.bestmove = 0]
         /\ calls' = settle(clearTimeout(calls, c), c, "resolved", message.move, message)
    ELSE /\ responseHandlers' = [bestmove |-> 0, info |-> 0]
         /\ calls' = settle(clearTimeout(calls, c), c, "resolved", infoBuffer, message)

\* worker.onmessage with the bestmove of the search the worker is running.
BestmoveMessage(bestMove) ==
    /\ worker
    /\ Unanswered(inbox) # <<>>
    /\ Head(Unanswered(inbox)).cmd = "go"
    /\ inbox' = Tail(Unanswered(inbox))
    /\ isSearching' = FALSE
    /\ IF responseHandlers.bestmove # 0
       THEN BestmoveHandler(responseHandlers.bestmove,
                            Bestmove(bestMove, Head(Unanswered(inbox)).call))
       ELSE UNCHANGED <<responseHandlers, calls>>
    /\ UNCHANGED <<worker, ready, infoBuffer, starts>>
    /\ UNCHANGED <<chessVars, managerVars>>

InitEngine ==
    /\ NoChess
    /\ ManagerLoaded
    /\ EngineConstructed

NextEngine ==
    \/ \E created \in BOOLEAN : initialize(created)
    \/ \E depth \in {0, 12} : getBestMove(depth)
    \/ \E caller \in {"user", "evaluatePosition"} : evaluatePositionDetailed(caller)
    \/ \E c \in 1..MaxCalls : Timeout(c)
    \/ stopSearch
    \/ terminate
    \/ Uciok
    \/ \E response \in SearchLines : InfoMessage(response)
    \/ \E bestMove \in {"e2e4"} : BestmoveMessage(bestMove)

SpecEngine == InitEngine /\ [][NextEngine]_vars

\* Timers fire: a timer that stays armed goes off.
SpecEngineFair == SpecEngine /\ \A c \in 1..MaxCalls : WF_vars(Timeout(c))

\* The evaluation calls on their own, with every kind of info line.
NextEvaluate ==
    \/ \E created \in BOOLEAN : initialize(created)
    \/ \E caller \in {"user", "evaluatePosition"} : evaluatePositionDetailed(caller)
    \/ \E c \in 1..MaxCalls : Timeout(c)
    \/ terminate
    \/ Uciok
    \/ \E response \in InfoLines : InfoMessage(response)
    \/ \E bestMove \in {"e2e4"} : BestmoveMessage(bestMove)

SpecEvaluate == InitEngine /\ [][NextEvaluate]_vars

(***************************************************************************)
(* Properties.                                                             *)
(***************************************************************************)
\* The position properties importFen returns, taken from a position.
PropsOf(p) ==
    [board |-> p.board, color |-> p.color,
     castlingAvailability |-> p.castlingAvailability,
     enPassantSquare |-> p.enPassantSquare,
     halfMoveClock |-> p.halfMoveClock,
     fullMoveNumber |-> p.fullMoveNumber]

\* C1: round trip.  For every position reached from an accepted FEN by
\* generated moves, toFen() is a six-field FEN string that importFen accepts
\* and parses back to the same board, side to move, castling rights,
\* en-passant square, halfmove clock and fullmove number.
C1_RoundTrip ==
    (Usable /\ direct = 0) =>
        LET str == toFen(chess)
            back == importFen(str)
        IN  /\ Len(Split(str, " ")) = 6
            /\ back.kind = "props"
            /\ back.props = PropsOf(chess)

\* C2: the constructor (and so importFen) returns normally for every string:
\* a malformed FEN yields an error message and nothing is thrown.
C2_NeverThrows ==
    last.op = "constructor" => ~last.threw /\ pc = "ready"

\* The structural tier: what isValidFen checks before it looks at the variant.
StructurallyValid(str) == isValidFen(str, VARIANT_UNKNOWN).kind = "true"

\* The semantic rules, for a structurally valid FEN: exactly one king per
\* color, at most 8 pawns per color, no pawn on rank 1 or 8, no en-passant
\* square with a non-zero halfmove clock, halfmove <= (fullmove-1)*2 + (1 if
\* black is to move), fullmove >= 1.
SemanticViolation(str) ==
    LET fields == Split(Trim(str), " ")
        ranks == Split(fields[1], "/")
        half == ParseInt(fields[5])
        full == ParseInt(fields[6])
    IN  \/ CountIn(fields[1], "k") # 1
        \/ CountIn(fields[1], "K") # 1
        \/ CountIn(fields[1], "p") > 8
        \/ CountIn(fields[1], "P") > 8
        \/ CountIn(ranks[1], "pP") > 0
        \/ CountIn(ranks[8], "pP") > 0
        \/ fields[4] # "-" /\ half # 0
        \/ half > (full - 1) * 2 + (IF fields[2] = "b" THEN 1 ELSE 0)
        \/ full < 1

\* C3: parsing applies the semantic tier.  The constructor reports an error
\* for every structurally valid FEN that violates a semantic rule.
C3_SemanticTierApplied ==
    (/\ last.op = "constructor"
     /\ StructurallyValid(last.arg)
     /\ SemanticViolation(last.arg))
        => ~last.threw /\ chess.error # ""

\* Some rank of the piece-placement field expands to a number of cells other
\* than 8 (a digit d to d cells, any other character to one).
SomeRankNot8(str) ==
    LET ranks == Split(Split(Trim(str), " ")[1], "/")
    IN  \E i \in 1..Len(ranks) : RowSum(ranks[i]) # 8

\* C4: isValidFen throws a ValidationError for every FEN in which some rank
\* of the piece placement expands to a number of cells different from 8.
C4_RankLengthRejected ==
    (last.op = "isValidFen" /\ SomeRankNot8(last.arg))
        => last.res.kind = "ValidationError"

\* C5: with the default-chess variant, isValidFen fails with the
\* ValidationError of the king-count rule for every structurally valid FEN
\* that does not hold exactly one white and exactly one black king,
\* placements without any king included.
C5_KingCountNamed ==
    (/\ last.op = "isValidFen"
     /\ last.variant = VARIANT_DEFAULT
     /\ StructurallyValid(last.arg)
     /\ LET placement == Split(Trim(last.arg), " ")[1]
        IN  CountIn(placement, "k") # 1 \/ CountIn(placement, "K") # 1)
        => last.res = ValidationError("More than 1 king")

KingOf(color) == IF color = WHITE THEN whiteKing ELSE blackKing

\* The king of `color' stands on a square the other color attacks.
KingAttacked(board, color) ==
    \E ks \in RealSquares :
        /\ board[ks] = KingOf(color)
        /\ isSquareAttacked(board, ks, oppositeColor(color))

\* C6: every generated move is legal.  After a move taken from
\* getPossibleSquares has been applied with move(), the mover's own king is
\* on no square that isSquareAttacked reports as attacked by the opponent.
C6_GeneratedMovesLegal ==
    (last.op = "move" /\ last.generated)
        => ~KingAttacked(chess.board, last.pre.color)

\* Some move of `color' (any entry of getPossibleSquares of any of its
\* pieces, applied with move()) leaves its king unattacked.
SomeMoveEscapes(p, color) ==
    LET q == [p EXCEPT !.color = color]
    IN  \E sq \in RealSquares :
            /\ p.board[sq] # EMPTY
            /\ PieceColor(p.board[sq]) = color
            /\ LET moves == getPossibleSquares(q, sq)
               IN  \E i \in 1..Len(moves) :
                       ~KingAttacked(move(q, moves[i]).board, color)

\* C7: isCheckmate(color) is true exactly when the king of that color is
\* attacked by the other color and no move of that color removes the attack;
\* so it is false wherever that king is not attacked.
C7_CheckmateExact ==
    (Usable /\ direct = 0) =>
        \A color \in {WHITE, BLACK} :
            isCheckmate(chess, color)
                <=> (KingAttacked(chess.board, color)
                     /\ ~SomeMoveEscapes(chess, color))

\* C8: move() from a square holding a piece that the side to move does not
\* own fails with an error and changes nothing of the position.
C8_NotOwnedSourceRejected ==
    (/\ last.op = "move"
     /\ last.pre.board[last.mv[1]] # EMPTY
     /\ PieceColor(last.pre.board[last.mv[1]]) # last.pre.color)
        => last.threw /\ chess = last.pre

\* C9: move() from an empty source square throws and is atomic: board, side
\* to move, castling rights, en-passant square and both clocks are as before.
C9_EmptySourceThrows ==
    (last.op = "move" /\ last.pre.board[last.mv[1]] = EMPTY)
        => last.threw /\ chess = last.pre

\* A direct call from an empty square has been made and has thrown.
C9_Witness ==
    /\ last.op = "move"
    /\ last.pre.board[last.mv[1]] = EMPTY
    /\ last.threw
    /\ \E sq \in RealSquares : last.pre.board[sq] # EMPTY

\* The castling rights the rule of C10 leaves after the move mv in p.
C10_Rights(p, mv) ==
    LET piece == p.board[mv[1]]
        destination == p.board[mv[2]]
        white == p.color = WHITE
        cleared ==
            (IF PieceKing(piece)
             THEN (IF white THEN {WKCA, WQCA} ELSE {BKCA, BQCA}) ELSE {})
            \cup (IF piece = whiteRook /\ white /\ mv[1] = H1 THEN {WKCA} ELSE {})
            \cup (IF piece = whiteRook /\ white /\ mv[1] = A1 THEN {WQCA} ELSE {})
            \cup (IF piece = blackRook /\ ~white /\ mv[1] = H8 THEN {BKCA} ELSE {})
            \cup (IF piece = blackRook /\ ~white /\ mv[1] = A8 THEN {BQCA} ELSE {})
            \cup (IF destination # EMPTY /\ ~white /\ mv[2] = H1 THEN {WKCA} ELSE {})
            \cup (IF destination # EMPTY /\ ~white /\ mv[2] = A1 THEN {WQCA} ELSE {})
            \cup (IF destination # EMPTY /\ white /\ mv[2] = H8 THEN {BKCA} ELSE {})
            \cup (IF destination # EMPTY /\ white /\ mv[2] = A8 THEN {BQCA} ELSE {})
        keep(bit) == IF HasBit(p.castlingAvailability, bit) /\ bit \notin cleared
                     THEN bit ELSE 0
    IN  keep(WKCA) + keep(WQCA) + keep(BKCA) + keep(BQCA)

\* C10: a generated move changes the castling rights only so: a king move
\* clears both rights of the mover, a rook move from its home square clears
\* the matching right, a capture on an opponent rook's home square clears
\* the opponent's matching right, and every other move leaves all four.
C10_CastlingRightsRule ==
    (last.op = "move" /\ last.generated)
        => chess.castlingAvailability = C10_Rights(last.pre, last.mv)

\* The array `moves' holds the move mv.
Contains(moves, mv) == \E i \in 1..Len(moves) : moves[i] = mv

\* The last call was a successful move() of a pawn two ranks along its file.
DoubleStepApplied ==
    /\ last.op = "move"
    /\ ~last.threw
    /\ PiecePawn(last.pre.board[last.mv[1]])
    /\ last.mv[2] - last.mv[1] \in {20, -20}

\* C11: en-passant generation.  After a pawn double-step has been applied
\* with move(), getPossibleSquares of every opposing pawn that stands beside
\* the double-stepped pawn (same rank, adjacent file) contains the capture
\* onto the en-passant square.
C11_EnPassantOffered ==
    DoubleStepApplied =>
        \A s \in {last.mv[2] - 1, last.mv[2] + 1} :
            (/\ PiecePawn(At(chess.board, s))
             /\ PieceColor(At(chess.board, s))
                    = oppositeColor(PieceColor(chess.board[last.mv[2]])))
                => Contains(getPossibleSquares(chess, s),
                            <<s, chess.enPassantSquare>>)

\* The last call was a successful move() of a pawn of the side to move one
\* step diagonally forward onto an empty square.
EnPassantCaptureApplied ==
    /\ last.op = "move"
    /\ ~last.threw
    /\ LET piece == last.pre.board[last.mv[1]]
       IN  /\ PiecePawn(piece)
           /\ PieceColor(piece) = last.pre.color
           /\ last.mv[2] - last.mv[1] \in
                  (IF last.pre.color = WHITE THEN {9, 11} ELSE {-9, -11})
           /\ last.pre.board[last.mv[2]] = EMPTY

\* The square directly behind the destination, in the mover's direction.
BehindDestination ==
    IF last.pre.color = WHITE THEN last.mv[2] - 10 ELSE last.mv[2] + 10

\* C12: applying an en-passant capture empties the square directly behind
\* the destination, puts the moving pawn on the destination and empties the
\* source; every other cell of the board is as before.
C12_EnPassantCaptureApplied ==
    EnPassantCaptureApplied =>
        chess.board = [[[last.pre.board EXCEPT ![BehindDestination] = EMPTY]
                            EXCEPT ![last.mv[1]] = EMPTY]
                            EXCEPT ![last.mv[2]] = last.pre.board[last.mv[1]]]

\* An en-passant capture has been applied with an opposing pawn behind the
\* destination, and that pawn is gone.
C12_Witness ==
    /\ EnPassantCaptureApplied
    /\ PiecePawn(last.pre.board[BehindDestination])
    /\ PieceColor(last.pre.board[BehindDestination])
           = oppositeColor(last.pre.color)
    /\ last.pre.enPassantSquare = last.mv[2]
    /\ chess.board[BehindDestination] = EMPTY
    /\ PiecePawn(chess.board[last.mv[2]])

\* The home square of the king of `color': e1 or e8.
KingHome(color) ==
    FileRank2Square(FILE_E, IF color = WHITE THEN RANK_1 ELSE RANK_8)

\* The last call was a successful move() of the king of the side to move from
\* its home square two files toward the h- or the a-file, the rook of that
\* side standing on the home square of that wing.
CastlingApplied ==
    /\ last.op = "move"
    /\ ~last.threw
    /\ last.pre.board[last.mv[1]] = KingOf(last.pre.color)
    /\ last.mv[1] = KingHome(last.pre.color)
    /\ last.mv[2] - last.mv[1] \in {2, -2}
    /\ last.pre.board[IF last.mv[2] > last.mv[1]
                      THEN last.mv[1] + 3 ELSE last.mv[1] - 4]
           = (IF last.pre.color = WHITE THEN whiteRook ELSE blackRook)

\* C13: applying a castling move puts the king on the g- or c-file, the rook
\* of that wing on the f- or d-file, leaves the home squares of king and rook
\* empty, clears both castling rights of the mover and leaves both rights of
\* the opponent as they were.
C13_CastlingApplied ==
    CastlingApplied =>
        LET white == last.pre.color = WHITE
            kingSide == last.mv[2] > last.mv[1]
            home == last.mv[1]
            rookHome == IF kingSide THEN home + 3 ELSE home - 4
            rookDst == IF kingSide THEN home + 1 ELSE home - 1
            own == IF white THEN {WKCA, WQCA} ELSE {BKCA, BQCA}
            other == IF white THEN {BKCA, BQCA} ELSE {WKCA, WQCA}
        IN  /\ chess.board[last.mv[2]] = KingOf(last.pre.color)
            /\ chess.board[rookDst] = (IF white THEN whiteRook ELSE blackRook)
            /\ chess.board[home] = EMPTY
            /\ chess.board[rookHome] = EMPTY
            /\ \A bit \in own : ~HasBit(chess.castlingAvailability, bit)
            /\ \A bit \in other :
                   HasBit(chess.castlingAvailability, bit)
                       <=> HasBit(last.pre.castlingAvailability, bit)

\* Black has castled queen-side with a generated move while holding its
\* rights and white still holding one: king on c8, rook on d8.
C13_Witness ==
    /\ CastlingApplied
    /\ last.generated
    /\ last.mv = <<95, 93>>
    /\ HasBit(last.pre.castlingAvailability, BQCA)
    /\ HasBit(last.pre.castlingAvailability, BKCA)
    /\ HasBit(chess.castlingAvailability, WKCA)
    /\ chess.board[94] = blackRook

\* The last call was a successful move().
MoveApplied == last.op = "move" /\ ~last.threw

\* The move mv takes a pawn of the board two ranks away.
ChangesRankByTwo(board, mv) ==
    /\ PiecePawn(board[mv[1]])
    /\ Square2FileRank(mv[2])[2] - Square2FileRank(mv[1])[2] \in {2, -2}

\* C14: after move() has applied a pawn move of two ranks along a file,
\* enPassantSquare is the square between source and destination and
\* halfMoveClock is 0; after every other successful move enPassantSquare is 0.
C14_EnPassantSquareUpdated ==
    MoveApplied =>
        IF ChangesRankByTwo(last.pre.board, last.mv)
        THEN Square2FileRank(last.mv[1])[1] = Square2FileRank(last.mv[2])[1]
                 => /\ chess.enPassantSquare = (last.mv[1] + last.mv[2]) \div 2
                    /\ chess.halfMoveClock = 0
        ELSE chess.enPassantSquare = 0

\* A pawn has made a double step while the halfmove clock was running: the
\* en-passant square is the square it passed and the clock is back at 0.
C14_Witness ==
    /\ DoubleStepApplied
    /\ last.generated
    /\ last.pre.halfMoveClock > 0
    /\ chess.enPassantSquare = (last.mv[1] + last.mv[2]) \div 2
    /\ chess.enPassantSquare # 0
    /\ chess.halfMoveClock = 0

\* C15: in every position built by the constructor from an accepted FEN and
\* reached from there by generated moves, an en-passant square that is set
\* (not 0) is a square of rank 3 or rank 6, and halfMoveClock is 0.
C15_EnPassantInvariant ==
    (Usable /\ direct = 0 /\ chess.enPassantSquare # 0)
        => /\ chess.enPassantSquare \in RealSquares
           /\ Square2FileRank(chess.enPassantSquare)[2] \in {RANK_3, RANK_6}
           /\ chess.halfMoveClock = 0

\* The number of real squares of the board that hold `piece'.
CountPiece(board, piece) ==
    Cardinality({sq \in RealSquares : At(board, sq) = piece})

\* C16: in every position built by the constructor from an accepted FEN and
\* reached from there by generated moves of the side to move, the board holds
\* exactly one white king and exactly one black king.
C16_OneKingEach ==
    (Usable /\ direct = 0)
        => /\ CountPiece(chess.board, whiteKing) = 1
           /\ CountPiece(chess.board, blackKing) = 1

\* C17: in every position built by the constructor from an accepted FEN and
\* reached from there by generated moves, the board is an array of 120 cells
\* whose 56 border cells hold OFFBOARD and whose 64 real squares hold EMPTY
\* or one of the 12 pieces.
C17_BoardShape ==
    (Usable /\ direct = 0)
        => /\ DOMAIN chess.board = 0..(BOARD_SIZE_SAFE - 1)
           /\ \A i \in 0..(BOARD_SIZE_SAFE - 1) :
                  IF i \in RealSquares
                  THEN chess.board[i] \in Pieces
                  ELSE chess.board[i] = OFFBOARD

\* The number of pieces on the real squares of the board.
PieceCount(board) ==
    Cardinality({sq \in RealSquares : At(board, sq) \in Pieces \ {EMPTY}})

C19_TurnAndFullMove ==
    [][(last'.op = "move" /\ ~last'.threw)
          => /\ chess.color \in {WHITE, BLACK}
             /\ chess'.color = oppositeColor(chess.color)
             /\ chess'.color # chess.color
             /\ chess'.fullMoveNumber =
                    (IF chess.color = BLACK THEN chess.fullMoveNumber + 1
                     ELSE chess.fullMoveNumber)
             /\ chess'.fullMoveNumber >= chess.fullMoveNumber]_vars

\* White and then black have moved their own pieces with generated moves:
\* white is to move again and fullMoveNumber is one more than at the start.
C19_Witness ==
    /\ MoveApplied
    /\ last.generated
    /\ ply = 2
    /\ last.pre.color = BLACK
    /\ chess.color = WHITE
    /\ chess.fullMoveNumber = last.pre.fullMoveNumber + 1

\* The squares strictly between a and b when both lie on one rank.
Between(a, b) ==
    IF a \in RealSquares /\ b \in RealSquares
       /\ Square2FileRank(a)[2] = Square2FileRank(b)[2]
    THEN {sq \in RealSquares : (a < sq /\ sq < b) \/ (b < sq /\ sq < a)}
    ELSE {}

\* A king move that is not a step onto a neighbouring square.
IsCastlingMove(mv) ==
    \A i \in 1..Len(KingDirections) : mv[2] - mv[1] # KingDirections[i]

\* What C20 asks of the castling move mv of the king on mv[1] in p.
C20_Allowed(p, mv) ==
    LET color == PieceColor(p.board[mv[1]])
        enemy == oppositeColor(color)
        rank == IF color = WHITE THEN RANK_1 ELSE RANK_8
        kingSide == Square2FileRank(mv[2])[1] = FILE_G
        bit == IF color = WHITE
               THEN (IF kingSide THEN WKCA ELSE WQCA)
               ELSE (IF kingSide THEN BKCA ELSE BQCA)
        rookHome == FileRank2Square(IF kingSide THEN FILE_H ELSE FILE_A, rank)
    IN  /\ HasBit(p.castlingAvailability, bit)
        /\ \A sq \in Between(mv[1], rookHome) : p.board[sq] = EMPTY
        /\ p.board[rookHome] = (IF color = WHITE THEN whiteRook ELSE blackRook)
        /\ \A sq \in {mv[1], mv[2]} \cup Between(mv[1], mv[2]) :
               ~isSquareAttacked(p.board, sq, enemy)

\* C20: in every position built from an accepted FEN and reached by
\* generated moves, getPossibleSquares of a king returns a castling move only
\* if the right of that wing is set, every square between king and rook is
\* empty, the rook of the king's color stands on its home square, and
\* isSquareAttacked reports none of the king's square, the squares it passes
\* and the square it lands on as attacked by the other color.
C20_CastlingOnlyWhenAllowed ==
    (Usable /\ direct = 0) =>
        \A sq \in RealSquares :
            PieceKing(chess.board[sq]) =>
                LET moves == getPossibleSquares(chess, sq)
                IN  \A i \in 1..Len(moves) :
                        IsCastlingMove(moves[i]) => C20_Allowed(chess, moves[i])

\* The square of the single rook of the board.
RookSquare(board) ==
    CHOOSE sq \in RealSquares : At(board, sq) \in {whiteRook, blackRook}

\* a and b are two real squares of one rank or of one file.
SameRankOrFile(a, b) ==
    \/ a \div 10 = b \div 10
    \/ a % 10 = b % 10

\* C21: with a single rook of color c on square s of an otherwise empty
\* board, isSquareAttacked(t, c) is true for every other square t of the
\* rook's rank or file and false for every square t on neither.
C21_RookAttacks ==
    LET s == RookSquare(chess.board)
    IN  (/\ last.op = "isSquareAttacked"
         /\ last.color = PieceColor(chess.board[s])
         /\ last.sq # s)
            => (last.res <=> SameRankOrFile(last.sq, s))

\* The rook has been found to attack a square of its file at least three
\* ranks away.
C21_Witness ==
    LET s == RookSquare(chess.board)
    IN  /\ last.op = "isSquareAttacked"
        /\ last.color = PieceColor(chess.board[s])
        /\ last.sq % 10 = s % 10
        /\ last.sq - s >= 30
        /\ last.res = TRUE

\* sq is the cell 21 + f + 10 r of a file f and a rank r in 0..7.
OnBoard(sq) ==
    \E f \in FILE_A..FILE_H, r \in RANK_1..RANK_8 : sq = 21 + f + (10 * r)

\* C22: coordinate inverse law.  For files and ranks in 0..7,
\* Square2FileRank(FileRank2Square(f, r)) is [f, r]; for each of the 64 real
\* squares s, FileRank2Square(Square2FileRank(s)) is s; for each border cell
\* Square2FileRank throws.
C22_CoordinateInverse ==
    /\ (/\ last.op = "FileRank2Square"
        /\ last.f \in FILE_A..FILE_H
        /\ last.r \in RANK_1..RANK_8)
           => /\ ~last.threw
              /\ ~Square2FileRankThrows(last.res)
              /\ Square2FileRank(last.res) = <<last.f, last.r>>
    /\ last.op = "Square2FileRank"
           => IF OnBoard(last.sq)
              THEN /\ ~last.threw
                   /\ ~FileRank2SquareThrows(last.res[1], last.res[2])
                   /\ FileRank2Square(last.res[1], last.res[2]) = last.sq
              ELSE last.threw

\* Square2FileRank has returned [6, 2] for g3, from which FileRank2Square
\* gives g3 back.
C22_Witness ==
    /\ last.op = "Square2FileRank"
    /\ last.sq = 47
    /\ ~last.threw
    /\ last.res = <<FILE_G, RANK_3>>
    /\ FileRank2Square(last.res[1], last.res[2]) = 47

\* The pieces of the start position: the back rank from the a-file to the
\* h-file, the pawns before it, white on ranks 1 and 2, black on 8 and 7.
StandardBoard ==
    LET back == <<"r", "n", "b", "q", "k", "b", "n", "r">>
        whiteOf == [r |-> whiteRook, n |-> whiteKnight, b |-> whiteBishop,
                    q |-> whiteQueen, k |-> whiteKing]
        blackOf == [r |-> blackRook, n |-> blackKnight, b |-> blackBishop,
                    q |-> blackQueen, k |-> blackKing]
    IN  [i \in 0..(BOARD_SIZE_SAFE - 1) |->
            IF ~OnBoard(i) THEN OFFBOARD
            ELSE CASE i \div 10 = 2 -> whiteOf[back[i % 10]]
                   [] i \div 10 = 3 -> whitePawn
                   [] i \div 10 = 8 -> blackPawn
                   [] i \div 10 = 9 -> blackOf[back[i % 10]]
                   [] OTHER -> EMPTY]

\* The constructor has been called with no argument or the start FEN.
StartConstructed ==
    /\ last.op = "constructor"
    /\ last.arg \in {"", "rnbqkbnr/pppppppp/8/8/8/8/PPPPPPPP/RNBQKBNR w KQkq - 0 1"}

\* C23: the constructor called with no argument or with the standard start
\* FEN yields no error, the 16 white and 16 black pieces on their standard
\* squares, white to move, all four castling rights, no en-passant square,
\* halfmove clock 0 and fullmove number 1.
C23_StartPosition ==
    StartConstructed =>
        /\ pc = "ready"
        /\ chess.error = ""
        /\ chess.board = StandardBoard
        /\ chess.color = WHITE
        /\ \A bit \in {WKCA, WQCA, BKCA, BQCA} :
               HasBit(chess.castlingAvailability, bit)
        /\ chess.enPassantSquare = 0
        /\ chess.halfMoveClock = 0
        /\ chess.fullMoveNumber = 1

\* The constructor has run without an argument and has put 16 pieces of
\* each color on the board, the white king on e1 and the black queen on d8.
C23_Witness ==
    /\ StartConstructed
    /\ last.arg = ""
    /\ pc = "ready"
    /\ Cardinality({sq \in RealSquares : PieceColor(chess.board[sq]) = WHITE}) = 16
    /\ Cardinality({sq \in RealSquares : PieceColor(chess.board[sq]) = BLACK}) = 16
    /\ chess.board[25] = whiteKing
    /\ chess.board[94] = blackQueen

\* What C30 asks of the pawn on sq in p: its moves other than en passant.
C30_PawnMovesOf(p, sq) ==
    LET board == p.board
        color == PieceColor(board[sq])
        mult == IF color = WHITE THEN 1 ELSE -1
        one == sq + (mult * 10)
        two == sq + (mult * 20)
        diagonals == {sq + (mult * 9), sq + (mult * 11)}
        home == sq \div 10 = (IF color = WHITE THEN 3 ELSE 8)
    IN  (IF At(board, one) = EMPTY THEN {<<sq, one>>} ELSE {})
        \cup (IF home /\ At(board, one) = EMPTY /\ At(board, two) = EMPTY
              THEN {<<sq, two>>} ELSE {})
        \cup {<<sq, d>> : d \in {d \in diagonals :
                  /\ At(board, d) \in Pieces \ {EMPTY}
                  /\ PieceColor(At(board, d)) = oppositeColor(color)}}

\* The entry mv of the pawn on sq is an en passant capture: it lands on the
\* en-passant square from another file.
IsEnPassantEntry(p, sq, mv) ==
    /\ p.enPassantSquare # 0
    /\ mv[2] = p.enPassantSquare
    /\ mv[2] % 10 # sq % 10

\* C30: for a pawn, the moves getPossibleSquares returns other than en
\* passant are exactly: one step forward iff that square is empty; two steps
\* forward iff the pawn is on its home rank and both squares are empty; each
\* forward diagonal iff it holds a piece of the opposite color.
C30_PawnMoves ==
    Usable =>
        \A sq \in RealSquares :
            PiecePawn(chess.board[sq]) =>
                LET moves == getPossibleSquares(chess, sq)
                IN  /\ \A mv \in C30_PawnMovesOf(chess, sq) : Contains(moves, mv)
                    /\ \A i \in 1..Len(moves) :
                           \/ moves[i] \in C30_PawnMovesOf(chess, sq)
                           \/ IsEnPassantEntry(chess, sq, moves[i])

\* One pawn is offered a capture, and another, off its home rank with two
\* empty squares before it, is offered the single step and not the double.
C30_Witness ==
    /\ Usable
    /\ \E sq \in RealSquares :
           /\ PiecePawn(chess.board[sq])
           /\ \E i \in 1..Len(getPossibleSquares(chess, sq)) :
                  chess.board[getPossibleSquares(chess, sq)[i][2]] # EMPTY
    /\ \E sq \in RealSquares :
           /\ chess.board[sq] = whitePawn
           /\ sq \div 10 = 5
           /\ chess.board[sq + 10] = EMPTY
           /\ chess.board[sq + 20] = EMPTY
           /\ Contains(getPossibleSquares(chess, sq), <<sq, sq + 10>>)
           /\ ~Contains(getPossibleSquares(chess, sq), <<sq, sq + 20>>)

\* The ChessEngine objects whose worker was created and is not terminated.
AliveWorkers == {k \in 1..Len(engines) : engines[k].worker}

InitializationInProgress ==
    /\ initializationPromise # 0
    /\ engines[initializationPromise].promise = "pending"

\* A step taken while an initialization is in progress creates no engine.
SharesInitialization ==
    [][InitializationInProgress => Len(engines') = Len(engines)]_vars

\* C24: whatever the interleaving of getEngine() and closeEngine() calls and
\* of initializations succeeding or failing, at most one worker created
\* through getEngine() is alive (created and not yet terminated) at any time,
\* and a getEngine() call made while an initialization is in progress shares
\* it and starts no other.
C24_EngineSingleton ==
    [](Cardinality(AliveWorkers) <= 1) /\ SharesInitialization

\* C29: a promise returned by getEngine() that resolves yields an engine
\* that is ready (isReady() is true and its worker is alive) at the moment
\* of resolution.
C29_ResolvesToReadyEngine ==
    [][\A call \in 1..Len(getCalls') :
           (/\ getCalls'[call].state = "fulfilled"
            /\ (call > Len(getCalls) \/ getCalls[call].state = "pending"))
           => /\ engines'[getCalls'[call].engine].ready
              /\ engines'[getCalls'[call].engine].worker]_vars

\* The info lines that name a depth among the lines received between the
\* call c and the moment it settled.
InfoLinesOf(c) ==
    LET named(line) == line.depth
    IN  SelectSeq(calls[c].heard, named)

\* Call c was resolved by a bestmove message.
ResolvedByBestmove(c) ==
    /\ calls[c].state = "resolved"
    /\ calls[c].by.type = "bestmove"

C26_BestMoveOfOwnRequest ==
    \A c \in 1..Len(calls) :
        (calls[c].op = "getBestMove" /\ calls[c].state = "resolved")
            => calls[c].by.answers = c

\* A call is made while a search is in flight.
BusyCall == isSearching /\ Len(calls') = Len(calls) + 1

\* C27: while isSearching is true a call of getBestMove or
\* evaluatePositionDetailed fails with 'Engine is already searching', sends
\* nothing to the worker and leaves the request in flight untouched: its
\* handlers, its timer and the isSearching flag are unchanged.
C27_BusyCallLeavesSearchUntouched ==
    [][BusyCall =>
          /\ calls'[Len(calls')].op \in {"getBestMove", "evaluatePositionDetailed"}
                 => /\ calls'[Len(calls')].state = "rejected"
                    /\ calls'[Len(calls')].value = "Engine is already searching"
          /\ calls'[Len(calls')].timeout = "none"
          /\ SubSeq(calls', 1, Len(calls)) = calls
          /\ inbox' = inbox
          /\ responseHandlers' = responseHandlers
          /\ isSearching'
          /\ UNCHANGED <<worker, ready, infoBuffer>>]_vars

\* A call was refused while the first call was in flight, and the first call
\* was then resolved by the bestmove of its own search.
C27_Witness ==
    /\ Len(calls) = 2
    /\ calls[2].state = "rejected"
    /\ calls[2].value = "Engine is already searching"
    /\ ResolvedByBestmove(1)
    /\ calls[1].by.answers = 1

\* The getBestMove calls that passed the busy check.
PassedBusyCheck(c) ==
    /\ c \in 1..Len(calls)
    /\ calls[c].op = "getBestMove"
    /\ calls[c].timeout # "none"

\* Call c resolved on the first bestmove delivered to it, its timer cleared.
ResolvedOnBestmove(c) ==
    /\ ResolvedByBestmove(c)
    /\ calls[c].value = calls[c].by.move
    /\ calls[c].timeout = "cleared"

\* Call c was rejected by its timer.
RejectedByTimeout(c) ==
    /\ calls[c].state = "rejected"
    /\ calls[c].value = "Engine search timeout"
    /\ calls[c].timeout = "fired"
    /\ calls[c].by = NoMessage

\* Call c was rejected at once because the engine holds no worker.
RejectedWithoutWorker(c) ==
    /\ calls[c].state = "rejected"
    /\ calls[c].value = "Engine not initialized"
    /\ calls[c].timeout = "cleared"
    /\ calls[c].by = NoMessage

\* A call rejected because the engine holds no worker is rejected by the
\* step that makes it.
RejectedAtOnce ==
    [][\A c \in 1..Len(calls') :
           (PassedBusyCheck(c)' /\ RejectedWithoutWorker(c)')
               => (c > Len(calls) \/ RejectedWithoutWorker(c))]_vars

\* The promise of call c settles at most once, and is settled once its
\* resolve or reject function has been called.
SettlesOnce(c) ==
    /\ calls[c].settles <= 1
    /\ calls[c].state = "pending" <=> calls[c].settles = 0

\* When a call settles, isSearching is false and no bestmove handler of the
\* call is registered.
CleanWhenSettled ==
    [][\A c \in 1..Len(calls') :
           (/\ calls'[c].op = "getBestMove"
            /\ calls'[c].timeout # "none"
            /\ calls'[c].state # "pending"
            /\ (c > Len(calls) \/ calls[c].state = "pending"))
           => (~isSearching' /\ responseHandlers'.bestmove # c)]_vars

\* Every call that passed the busy check settles.
EventuallySettles ==
    \A c \in 1..MaxCalls :
        (PassedBusyCheck(c) /\ calls[c].state = "pending")
            ~> (PassedBusyCheck(c) /\ calls[c].state # "pending")

\* C28 as stated: every getBestMove call that passes the busy check settles
\* exactly once, resolving on the first bestmove delivered to it or rejecting
\* with 'Engine search timeout', whichever happens first; isSearching is
\* false and no bestmove handler of the call is registered once it settles.
C28_SettlesByBestmoveOrTimeout ==
    /\ [](\A c \in 1..Len(calls) :
             PassedBusyCheck(c) =>
                 /\ SettlesOnce(c)
                 /\ calls[c].state # "pending" =>
                        (ResolvedOnBestmove(c) \/ RejectedByTimeout(c)))
    /\ CleanWhenSettled
    /\ EventuallySettles

\* C28 amended: the same, with the third way a call that passed the busy
\* check settles: at once, rejected with 'Engine not initialized', when the
\* engine holds no worker.
C28_SettlesExactlyOnce ==
    /\ [](\A c \in 1..Len(calls) :
             PassedBusyCheck(c) =>
                 /\ SettlesOnce(c)
                 /\ calls[c].state # "pending" =>
                        \/ ResolvedOnBestmove(c)
                        \/ RejectedByTimeout(c)
                        \/ RejectedWithoutWorker(c))
    /\ RejectedAtOnce
    /\ CleanWhenSettled
    /\ EventuallySettles

\* The engine was terminated during the search of one call, which its timer
\* then rejected, and a later call found no worker and was rejected at once.
C28_Witness ==
    \E c \in 1..Len(calls), d \in 1..Len(calls) :
        /\ c < d
        /\ ~worker
        /\ PassedBusyCheck(c)
        /\ RejectedByTimeout(c)
        /\ PassedBusyCheck(d)
        /\ RejectedWithoutWorker(d)
        /\ ~isSearching

(***************************************************************************)
(* The move generator on its own (SpecPieces).  A square is named by its   *)
(* file and rank, counted from 0; the squares a piece may reach are        *)
(* described by steps of files and ranks, not by offsets into the array.   *)
(***************************************************************************)
FileOf(sq) == (sq % 10) - 1
RankOf(sq) == (sq \div 10) - 2

\* The square `n' steps of <<files, ranks>> away from sq, 0 when that leaves
\* the board.
Stepped(sq, step, n) ==
    IF /\ FileOf(sq) + n * step[1] \in 0..7
       /\ RankOf(sq) + n * step[2] \in 0..7
    THEN sq + n * (step[1] + 10 * step[2])
    ELSE 0

Orthogonal == {<<1, 0>>, <<-1, 0>>, <<0, 1>>, <<0, -1>>}
Diagonal == {<<1, 1>>, <<1, -1>>, <<-1, 1>>, <<-1, -1>>}

SliderSteps(piece) ==
    (IF PieceRookQueen(piece) THEN Orthogonal ELSE {})
    \cup (IF PieceBishopQueen(piece) THEN Diagonal ELSE {})

\* The squares a bishop, rook or queen on sq reaches: along each step every
\* square with only empty squares before it, itself empty or holding a piece
\* of the other color.
SlideTargets(board, sq) ==
    {t \in RealSquares :
        \E step \in SliderSteps(board[sq]), n \in 1..7 :
            /\ t = Stepped(sq, step, n)
            /\ \A k \in 1..(n - 1) : board[Stepped(sq, step, k)] = EMPTY
            /\ \/ board[t] = EMPTY
               \/ PieceColor(board[t]) = oppositeColor(PieceColor(board[sq]))}

Destinations(moves) == {moves[i][2] : i \in 1..Len(moves)}

\* A getPossibleSquares call that returned.
MovesReturned == last.op = "getPossibleSquares" /\ ~last.threw

\* C31: for a bishop, rook or queen on any square the destinations returned
\* by getPossibleSquares are exactly, along each of the piece's directions,
\* every empty square up to the first non-empty square, plus that square iff
\* it holds a piece of the opposite color; every move starts at the queried
\* square, and no destination lies beyond a blocker or across a board edge.
C31_SliderMoves ==
    (MovesReturned /\ SliderSteps(chess.board[last.sq]) # {}) =>
        /\ Destinations(last.res) = SlideTargets(chess.board, last.sq)
        /\ \A i \in 1..Len(last.res) : last.res[i][1] = last.sq

\* A queen between pieces: it captures one, and a piece of its own color
\* stands next to it in one of its directions.
C31_Witness ==
    /\ MovesReturned
    /\ chess.board[last.sq] \in {whiteQueen, blackQueen}
    /\ \E i \in 1..Len(last.res) : chess.board[last.res[i][2]] # EMPTY
    /\ \E step \in Orthogonal \cup Diagonal :
          /\ Stepped(last.sq, step, 1) # 0
          /\ PieceColor(chess.board[Stepped(last.sq, step, 1)]) =
                 PieceColor(chess.board[last.sq])
    /\ \E step \in Orthogonal \cup Diagonal : Stepped(last.sq, step, 1) = 0

KnightSteps ==
    {<<1, 2>>, <<2, 1>>, <<2, -1>>, <<1, -2>>,
     <<-1, -2>>, <<-2, -1>>, <<-2, 1>>, <<-1, 2>>}

\* The squares a knight's step away from sq that are on the board and hold
\* no piece of the knight's own color.
KnightTargets(board, sq) ==
    {t \in RealSquares :
        /\ \E step \in KnightSteps : t = Stepped(sq, step, 1)
        /\ PieceColor(board[t]) # PieceColor(board[sq])}

\* C32: for a knight on any of the 64 squares the destinations returned by
\* getPossibleSquares are exactly the squares at a knight's offset that are
\* on the board and not occupied by a piece of the knight's own color; every
\* move starts at the queried square and none wraps around a board edge.
C32_KnightMoves ==
    (MovesReturned /\ PieceKnight(chess.board[last.sq])) =>
        /\ Destinations(last.res) = KnightTargets(chess.board, last.sq)
        /\ \A i \in 1..Len(last.res) : last.res[i][1] = last.sq
        /\ \A i \in 1..Len(last.res) :
              /\ FileOf(last.res[i][2]) - FileOf(last.sq) \in {-2, -1, 1, 2}
              /\ RankOf(last.res[i][2]) - RankOf(last.sq) \in {-2, -1, 1, 2}

\* A knight in the corner h8 of the scattered board: two of its eight
\* offsets stay on the board, and a piece of its own color stands on one.
C32_Witness ==
    /\ MovesReturned
    /\ last.sq = H8
    /\ PieceKnight(chess.board[last.sq])
    /\ Len(last.res) = 1
    /\ \E step \in KnightSteps :
          /\ Stepped(last.sq, step, 1) # 0
          /\ PieceColor(chess.board[Stepped(last.sq, step, 1)]) =
                 PieceColor(chess.board[last.sq])

(***************************************************************************)
(* The placement codec on its own (SpecPieces).                            *)
(***************************************************************************)
\* A rank string without its digits.
Letters(str) ==
    LET acc[i \in 0..Len(str)] ==
            IF i = 0 THEN ""
            ELSE acc[i - 1]
                 \o (IF InClass(Char(str, i), Digits) THEN "" ELSE Char(str, i))
    IN  acc[Len(str)]

\* The letters of the pieces of rank r (counted from 0), from the a-file on.
RankLetters(board, r) ==
    LET acc[f \in 0..8] ==
            IF f = 0 THEN ""
            ELSE acc[f - 1]
                 \o (IF board[20 + f + (10 * r)] = EMPTY THEN ""
                     ELSE PieceChar(board[20 + f + (10 * r)]))
    IN  acc[8]

\* C33: for every board whose 64 real squares each hold EMPTY or a piece,
\* Board2Fen emits the ranks from 8 down to 1, eight squares each, with every
\* maximal run of empty squares written as one digit; the output passes the
\* structural checks of isValidFen, and Fen2Board of the output equals the
\* original board on all 120 cells.
C33_PlacementRoundTrip ==
    last.op = "Board2Fen" =>
        LET ranks == Split(last.res, "/")
        IN  /\ Len(ranks) = 8
            /\ \A i \in 1..8 :
                  /\ Letters(ranks[i]) = RankLetters(chess.board, 8 - i)
                  /\ RowSum(ranks[i]) = 8
            /\ ~ConsecutiveDigits(last.res)
            /\ isValidFen(last.res \o " w - - 0 1", VARIANT_UNKNOWN) = ReturnsTrue
            /\ Fen2Board(last.res) = [threw |-> FALSE, board |-> chess.board]

\* A board with empty ranks and a rank whose single piece stands between two
\* runs of empty squares.
C33_Witness ==
    /\ last.op = "Board2Fen"
    /\ \E i \in 1..8, j \in 1..8 :
          LET ranks == Split(last.res, "/")
          IN  /\ ranks[i] = "8"
              /\ Len(ranks[j]) = 3
              /\ InClass(Char(ranks[j], 1), Digits)
              /\ InClass(Char(ranks[j], 3), Digits)

(***************************************************************************)
(* The move generator in play (Spec, SpecEdge).                            *)
(***************************************************************************)
\* The squares of `chess' that hold a piece.
Occupied == {sq \in RealSquares : chess.board[sq] # EMPTY}

\* C34: in every position built by the constructor from an accepted FEN or
\* reached from it by generated moves, every move returned by
\* getPossibleSquares for any piece ends on a real board square that is empty
\* or holds a piece of the opposite color.
C34_MovesEndOnFreeOrEnemySquare ==
    (Usable /\ direct = 0) =>
        \A sq \in Occupied :
            LET moves == getPossibleSquares(chess, sq)
            IN  \A i \in 1..Len(moves) :
                    /\ moves[i][2] \in RealSquares
                    /\ \/ chess.board[moves[i][2]] = EMPTY
                       \/ PieceColor(chess.board[moves[i][2]]) =
                              oppositeColor(PieceColor(chess.board[sq]))

\* The moves getPossibleSquares returns for the king on sq that are not a
\* step to a neighbouring square: the castling moves.
KingLeaps(p, sq) ==
    LET moves == getPossibleSquares(p, sq)
    IN  {moves[i] : i \in
            {j \in 1..Len(moves) :
                \/ FileOf(moves[j][2]) - FileOf(sq) \notin {-1, 0, 1}
                \/ RankOf(moves[j][2]) - RankOf(sq) \notin {-1, 0, 1}}}

\* C35: in every position built by the constructor from an accepted FEN,
\* getPossibleSquares returns a castling move for a king only when that king
\* stands on its home square (e1 for white, e8 for black), and every returned
\* castling move is a king move of exactly two files along the back rank.
C35_CastlingFromHomeSquare ==
    (Usable /\ ply = 0) =>
        \A sq \in Occupied :
            PieceKing(chess.board[sq]) =>
                \A mv \in KingLeaps(chess, sq) :
                    /\ sq = KingHome(PieceColor(chess.board[sq]))
                    /\ RankOf(mv[2]) = RankOf(sq)
                    /\ FileOf(mv[2]) - FileOf(sq) \in {-2, 2}

\* Every castling right set in p has its king and its rook on their home
\* squares.
RightsConsistent(p) ==
    /\ HasBit(p.castlingAvailability, WKCA) =>
           p.board[25] = whiteKing /\ p.board[H1] = whiteRook
    /\ HasBit(p.castlingAvailability, WQCA) =>
           p.board[25] = whiteKing /\ p.board[A1] = whiteRook
    /\ HasBit(p.castlingAvailability, BKCA) =>
           p.board[95] = blackKing /\ p.board[H8] = blackRook
    /\ HasBit(p.castlingAvailability, BQCA) =>
           p.board[95] = blackKing /\ p.board[A8] = blackRook

\* C36: when every set castling right has its king and its rook on their
\* home squares, the same holds after a generated move of the side to move,
\* and so after any sequence of such moves.
C36_CastlingRightsStayConsistent ==
    (/\ Usable
     /\ direct = 0
     /\ last.op = "move"
     /\ last.generated
     /\ ~last.threw
     /\ RightsConsistent(last.pre)) => RightsConsistent(chess)

(***************************************************************************)
(* The clocks in play (Spec).                                              *)
(***************************************************************************)
\* The clock checks of the validator, on the fields of a position.
ClockBound(p) ==
    /\ p.halfMoveClock <=
           (p.fullMoveNumber - 1) * 2 + (IF p.color = BLACK THEN 1 ELSE 0)
    /\ p.halfMoveClock >= 0
    /\ p.fullMoveNumber >= 1

\* C37: a successful move() call on a position that satisfies the clock
\* bound of the validator leaves a position that satisfies it, so the bound
\* holds after any sequence of successful move() calls from a position that
\* satisfies it.
C37_ClockBoundKept ==
    (Usable /\ last.op = "move" /\ ~last.threw /\ ClockBound(last.pre)) =>
        ClockBound(chess)

\* Two moves without pawn or capture from the start position: the halfmove
\* clock has reached the bound, after a move of black.
C37_Witness ==
    /\ Usable
    /\ last.op = "move"
    /\ ~last.threw
    /\ ClockBound(last.pre)
    /\ last.pre.color = BLACK
    /\ chess.halfMoveClock = 2
    /\ chess.halfMoveClock = (chess.fullMoveNumber - 1) * 2

(***************************************************************************)
(* Attack detection against capture generation (Spec, SpecEdge).           *)
(***************************************************************************)
\* Some piece of `color' has a move with destination t in its
\* getPossibleSquares result.
SomeMoveEndsOn(p, t, color) ==
    \E sq \in RealSquares :
        /\ p.board[sq] # EMPTY
        /\ PieceColor(p.board[sq]) = color
        /\ t \in Destinations(getPossibleSquares(p, sq))

\* C38: in every position reachable from an accepted FEN, for every color c
\* and every square t holding a piece of the other color,
\* isSquareAttacked(t, c) is true if and only if some piece of color c has a
\* move with destination t in its getPossibleSquares result.
C38_AttackAgreesWithCaptures ==
    Usable =>
        \A c \in {WHITE, BLACK}, t \in RealSquares :
            (chess.board[t] # EMPTY
             /\ PieceColor(chess.board[t]) = oppositeColor(c)) =>
                (isSquareAttacked(chess.board, t, c)
                    <=> SomeMoveEndsOn(chess, t, c))

(***************************************************************************)
(* Surrounding blanks (SpecFen).                                           *)
(***************************************************************************)
\* C39: for every FEN string with leading or trailing spaces whose trimmed
\* form passes validation, importFen returns the same board, side to move,
\* castling rights, en-passant square and clocks as it returns for the
\* trimmed string.
C39_SurroundingBlanksIgnored ==
    (/\ last.op = "constructor"
     /\ last.arg # Trim(last.arg)
     /\ isValidFen(Trim(last.arg), VARIANT_UNKNOWN) = ReturnsTrue) =>
        importFen(last.arg) = importFen(Trim(last.arg))

(***************************************************************************)
(* The semantic validator on valid positions (SpecFen).                    *)
(***************************************************************************)
\* C40: isValidFen called with the default-chess variant returns true,
\* without throwing, for every FEN that satisfies all structural and semantic
\* rules, including positions in which one or both colors have no pawns.
C40_ValidPositionsAccepted ==
    (/\ last.op = "isValidFen"
     /\ last.variant = VARIANT_DEFAULT
     /\ StructurallyValid(last.arg)
     /\ ~SemanticViolation(last.arg)) => last.res = ReturnsTrue

====
